---- MODULE Spec2Model ----
(***************************************************************************)
(* Model of the entity-validation and referential-integrity layer of the   *)
(* Movie/Person application: the Person and Movie entity classes and the   *)
(* PersonStorage / MovieStorage repositories.                              *)
(*                                                                         *)
(* Modelled sources:                                                       *)
(*   Person         src/unnamed/part_004                                   *)
(*   PersonStorage  src/unnamed/part_006                                   *)
(*   Movie          src/docs/assignment6/src/m/Movie.js                    *)
(*   MovieStorage   src/unnamed/part_007                                   *)
(*   cloneObject &c src/docs/assignment4/lib/util.js                       *)
(*                                                                         *)
(* JavaScript values are typed: an id given as the number 1 and an id      *)
(* given as the string "1" are different values that name the same         *)
(* property key of a collection.  The code compares them with === in       *)
(* several places, so the model keeps the type.                            *)
(***************************************************************************)
EXTENDS Integers, Sequences, FiniteSets, TLC

VARIABLES
  p_instances,  \* PersonStorage._instances : property key -> Person
  p_nextId,     \* PersonStorage._nextId
  m_instances,  \* MovieStorage._instances  : property key -> Movie (or null)
  m_nextId,     \* MovieStorage._nextId
  p_store,      \* localStorage["person"]
  m_store,      \* localStorage["movies"]
  call,         \* the last repository call: operation, id, outcome
  calls,        \* the number of calls made so far
  p_deleted,    \* history: the person keys a destroy has removed
  m_deleted,    \* history: the movie keys a destroy has removed
  o_movie,      \* a Movie object held by a caller of the class (ObjectSpec)
  o_out,        \* the last call on an object or class: operation, argument, outcome
  b_persons,    \* version with back-references: PersonStorage.instances
  b_movies,     \* version with back-references: _MovieStorage._instances
  b_nextId      \* version with back-references: _MovieStorage._nextId

vars == <<p_instances, p_nextId, m_instances, m_nextId, p_store, m_store, call, calls,
          p_deleted, m_deleted, o_movie, o_out, b_persons, b_movies, b_nextId>>

(***************************************************************************)
(* Bounds of the model                                                     *)
(***************************************************************************)
MaxPersonId == 2   \* person ids 1..MaxPersonId; MaxPersonId+1 is never added
MaxMovieId == 1    \* movie ids 1..MaxMovieId
MaxCalls == 4      \* calls of a behaviour

(***************************************************************************)
(* JavaScript values                                                       *)
(***************************************************************************)
Undefined == [t |-> "undefined", v |-> 0]
Null == [t |-> "null", v |-> 0]
Num(i) == [t |-> "number", v |-> i]
\* the decimal string of the integer i
Str(i) == [t |-> "string", v |-> i]
\* the empty string ""
EmptyStr == [t |-> "string", v |-> -1]
\* a string that is not a numeral, "x"
StrX == [t |-> "string", v |-> -2]

\* ToBoolean: 0, "", null and undefined are falsy; "0" is truthy
Truthy(x) ==
  CASE x.t = "number" -> x.v # 0
    [] x.t = "string" -> x # EmptyStr
    [] OTHER -> FALSE

\* The property key a value names in `obj[value]`: the number 1 and the
\* string "1" name the key "1"; undefined, null and "" name keys that no
\* record is stored under.
KeyUndefined == -1
KeyNull == -2
KeyEmpty == -3
KeyX == -4
KeyNaN == -5
KeyOf(x) ==
  CASE x.t = "undefined" -> KeyUndefined
    [] x.t = "NaN" -> KeyNaN
    [] x.t = "null" -> KeyNull
    [] x = EmptyStr -> KeyEmpty
    [] x = StrX -> KeyX
    [] OTHER -> x.v

Put(f, k, val) == [x \in DOMAIN f \cup {k} |-> IF x = k THEN val ELSE f[x]]
Del(f, k) == [x \in DOMAIN f \ {k} |-> f[x]]
EmptyMap == [x \in {} |-> 0]

Max(a, b) == IF a >= b THEN a ELSE b

\* Object.keys of a collection: integer-like keys in ascending order
RECURSIVE SortedKeys(_)
SortedKeys(S) ==
  IF S = {} THEN <<>>
  ELSE LET lo == CHOOSE x \in S : \A y \in S : x <= y
       IN <<lo>> \o SortedKeys(S \ {lo})

Range(s) == {s[i] : i \in DOMAIN s}

(***************************************************************************)
(* lib/util.js                                                             *)
(***************************************************************************)
\* isIntegerOrIntegerString: an integer number, or a string of digits
isIntegerOrIntegerString(x) ==
  \/ x.t = "number"
  \/ x.t = "string" /\ x # EmptyStr /\ x # StrX

\* parseStringInteger / parseInt on the values of the model: the number
\* itself, or the number a digit string denotes
parseStringInteger(x) == x.v

\* a slot of string type that is not given
UndefinedString == "undefined"
StrTruthy(s) == s # "" /\ s # UndefinedString

\* String.prototype.trim: the string without its leading and trailing blanks
RECURSIVE TrimStart(_)
TrimStart(s) ==
  IF Len(s) > 0 /\ SubSeq(s, 1, 1) = " " THEN TrimStart(SubSeq(s, 2, Len(s))) ELSE s
RECURSIVE TrimEnd(_)
TrimEnd(s) ==
  IF Len(s) > 0 /\ SubSeq(s, Len(s), Len(s)) = " "
  THEN TrimEnd(SubSeq(s, 1, Len(s) - 1)) ELSE s
Trim(s) == TrimEnd(TrimStart(s))

\* String.prototype.length
StrLen(s) == Len(s)

\* isStringInRange(str, min, max): min <= length < max
isStringInRange(str, min, max) == StrLen(str) >= min /\ StrLen(str) < max
NumberMaxValue == 1000000

(***************************************************************************)
(* Enumerations (lib/Enumeration.js): labels are numbered from 1           *)
(***************************************************************************)
PersonTypeEL_AGENT == 3
PersonTypeEL_MAX == 3
MovieCategoryEL_BIOGRAPHY == 1
MovieCategoryEL_TVSERIESEPISODE == 2
MovieCategoryEL_MAX == 2

(***************************************************************************)
(* Person  (src/unnamed/part_004)                                          *)
(***************************************************************************)
\* new Person(slots): the constructor stores the slots without validation
NewPerson(slots) ==
  [personId |-> slots.personId,
   name |-> slots.name,
   categories |-> slots.categories,
   agent |-> IF Truthy(slots.agent) THEN slots.agent ELSE Null]

\* a record that stands for "no object"
NoPerson == [personId |-> Undefined, name |-> "", categories |-> <<>>, agent |-> Undefined]

\* Person.checkCategory: a truthy category outside [1, MAX] is a range violation
Person_checkCategory(cat) ==
  IF cat # 0 /\ (cat < 1 \/ cat > PersonTypeEL_MAX)
  THEN "RangeConstraintViolation" ELSE "NoConstraintViolation"

\* Person.addCategory(category) on the list of categories
addCategory(categories, cat) ==
  IF Person_checkCategory(cat) = "NoConstraintViolation" /\ cat \notin Range(categories)
  THEN Append(categories, cat)
  ELSE categories

\* does the list hold the label PersonTypeEL[cat]: the enumeration has an
\* entry per label name, none per number, and a list of numbers holds no
\* undefined
IncludesLabelOf(categories, cat) == FALSE

\* Array.prototype.splice(start, 1): the list without the element at the
\* 0-based index start; -1 is the last element
Splice1(list, start) ==
  LET i == IF start < 0 THEN Len(list) + start + 1 ELSE start + 1
  IN IF i < 1 \/ i > Len(list) THEN list
     ELSE SubSeq(list, 1, i - 1) \o SubSeq(list, i + 1, Len(list))

\* Array.prototype.indexOf, 0-based, -1 when absent
IndexOf(list, x) ==
  IF x \in Range(list) THEN (CHOOSE i \in DOMAIN list : list[i] = x /\ \A j \in 1..(i - 1) : list[j] # x) - 1
  ELSE -1

\* Person.removeCategory(category) on the list of categories (a category
\* that fails the check is thrown and the list stays)
removeCategory(categories, cat) ==
  IF Person_checkCategory(cat) = "NoConstraintViolation"
     /\ ~IncludesLabelOf(categories, cat)
  THEN Splice1(categories, IndexOf(categories, cat))
  ELSE categories

\* PersonStorage.contains(personId): Object.keys(...).includes(personId.toString())
PersonStorage_contains(P, personId) == KeyOf(personId) \in DOMAIN P

Person_checkPersonId(personId) ==
  IF ~Truthy(personId) /\ personId # Num(0) THEN "MandatoryValueConstraintViolation"
  ELSE IF ~isIntegerOrIntegerString(personId) THEN "RangeConstraintViolation"
  ELSE IF parseStringInteger(personId) < 0 THEN "IntervalConstraintViolation"
  ELSE "NoConstraintViolation"

Person_checkPersonIdAsIdRef(P, personId) ==
  LET r == Person_checkPersonId(personId)
  IN IF r = "NoConstraintViolation" /\ ~PersonStorage_contains(P, personId)
     THEN "ReferentialIntegrityConstraintViolation"
     ELSE r

Person_checkName(name) ==
  IF ~StrTruthy(name) THEN "MandatoryValueConstraintViolation"
  ELSE IF ~isStringInRange(Trim(name), 1, NumberMaxValue) THEN "IntervalConstraintViolation"
  ELSE "NoConstraintViolation"

Person_checkAgent(P, agent) ==
  IF Truthy(agent) THEN Person_checkPersonIdAsIdRef(P, agent)
  ELSE "NoConstraintViolation"

\* Person.toString throws a TypeError when the agent is set and is not in
\* the collection: PersonStorage.instances[this.agent]._name
Person_toStringThrows(P, person) ==
  Truthy(person.agent) /\ KeyOf(person.agent) \notin DOMAIN P

(***************************************************************************)
(* Object references.  A Movie holds references to Person objects.  A      *)
(* reference is live while the object it names is the one stored in        *)
(* PersonStorage under its key; when the collection drops or replaces that *)
(* object (destroy, add over the same key, the rollback of update) the     *)
(* reference keeps naming the old object, whose last state is `snap`.      *)
(* No operation changes an object after the collection dropped it.  Of a   *)
(* referenced object the code reads personId, name and agent only.         *)
(***************************************************************************)
Snap(person) == [personId |-> person.personId, name |-> person.name, agent |-> person.agent]
NoSnap == Snap(NoPerson)
LiveRef(k) == [key |-> k, live |-> TRUE, snap |-> NoSnap]
NoRef == [key |-> KeyUndefined, live |-> FALSE, snap |-> NoSnap]
Deref(P, r) == IF r.live THEN Snap(P[r.key]) ELSE r.snap

DetachRef(P, r, k) ==
  IF r.live /\ r.key = k THEN [key |-> k, live |-> FALSE, snap |-> Snap(P[k])] ELSE r

(***************************************************************************)
(* Sample strings and dates                                                *)
(***************************************************************************)
\* isDateOrDateString on the sample dates
isDateOrDateString(d) == d \in {"1994-05-12", "1800-01-01"}
\* parseDate(d).getTime(), in days relative to 1895-12-28
DateTime(d) ==
  CASE d = "1994-05-12" -> 35930
    [] d = "1800-01-01" -> -35059
    [] OTHER -> 0

\* compareDates(a, b) of util.js
compareDates(a, b) ==
  IF ~isDateOrDateString(a) /\ ~isDateOrDateString(b) THEN 0
  ELSE IF ~isDateOrDateString(a) THEN -2
  ELSE IF ~isDateOrDateString(b) THEN 2
  ELSE IF DateTime(a) = DateTime(b) THEN 0
  ELSE IF DateTime(a) > DateTime(b) THEN 1 ELSE -1

(***************************************************************************)
(* Movie  (src/docs/assignment6/src/m/Movie.js)                            *)
(***************************************************************************)
\* the value of a number-typed attribute that was never assigned a number
NaN == [t |-> "NaN", v |-> 0]

\* `this` before the constructor assigned anything
BlankMovie ==
  [movieId |-> Undefined, title |-> UndefinedString, releaseDate |-> UndefinedString,
   director |-> NoRef, actors |-> EmptyMap, category |-> Undefined,
   about |-> NoRef, tvSeriesName |-> UndefinedString, episodeNo |-> Undefined]

\* a null entry of the movie collection (Movie.deserialize returned null)
NullMovie == [BlankMovie EXCEPT !.movieId = Null]

MovieStorage_contains(M, movieId) == KeyOf(movieId) \in DOMAIN M

\* a variant of Movie_checkMovieId for which the id is optional
checkMovieId_optional(M, movieId) ==
  IF ~Truthy(movieId) /\ movieId # Num(0) THEN "NoConstraintViolation"
  ELSE IF ~isIntegerOrIntegerString(movieId) THEN "RangeConstraintViolation"
  ELSE IF parseStringInteger(movieId) < 0 THEN "IntervalConstraintViolation"
  ELSE IF MovieStorage_contains(M, movieId) THEN "UniquenessConstraintViolation"
  ELSE "NoConstraintViolation"

Movie_checkMovieId(M, movieId) ==
  IF ~Truthy(movieId) /\ movieId # Num(0) THEN "MandatoryValueConstraintViolation"
  ELSE IF ~isIntegerOrIntegerString(movieId) THEN "RangeConstraintViolation"
  ELSE IF parseStringInteger(movieId) < 0 THEN "IntervalConstraintViolation"
  ELSE IF MovieStorage_contains(M, movieId) THEN "UniquenessConstraintViolation"
  ELSE "NoConstraintViolation"

TitleMax == 120
Movie_checkTitle(title) ==
  IF ~StrTruthy(title) THEN "MandatoryValueConstraintViolation"
  ELSE IF ~isStringInRange(Trim(title), 1, TitleMax) THEN "IntervalConstraintViolation"
  ELSE "NoConstraintViolation"

Movie_checkReleaseDate(date) ==
  IF ~isDateOrDateString(date) THEN "RangeConstraintViolation"
  ELSE IF DateTime(date) < 0 THEN "IntervalConstraintViolation"
  ELSE "NoConstraintViolation"

Movie_checkDirector(P, director_id) == Person_checkPersonIdAsIdRef(P, director_id)
Movie_checkActor(P, actor) == Person_checkPersonIdAsIdRef(P, actor)

Movie_checkCategory(category) ==
  IF ~Truthy(category) THEN "NoConstraintViolation"
  ELSE IF ~isIntegerOrIntegerString(category) THEN "RangeConstraintViolation"
  ELSE IF parseStringInteger(category) < 1 \/ parseStringInteger(category) > MovieCategoryEL_MAX
    THEN "IntervalConstraintViolation"
  ELSE "NoConstraintViolation"

\* does the category attribute hold the number c
CategoryIs(movieCategory, c) ==
  movieCategory.t \in {"number", "string"} /\ movieCategory # EmptyStr /\ movieCategory.v = c

\* a variant of Movie_checkAbout without the rule that only a biography
\* may have an about
checkAbout_anyCategory(P, about_id, movieCategory) ==
  IF CategoryIs(movieCategory, MovieCategoryEL_BIOGRAPHY) /\ ~Truthy(about_id)
    THEN "MandatoryValueConstraintViolation"
  ELSE IF Truthy(about_id) THEN Person_checkPersonIdAsIdRef(P, about_id)
  ELSE "NoConstraintViolation"

Movie_checkAbout(P, about_id, movieCategory) ==
  IF CategoryIs(movieCategory, MovieCategoryEL_BIOGRAPHY) /\ ~Truthy(about_id)
    THEN "MandatoryValueConstraintViolation"
  ELSE IF ~CategoryIs(movieCategory, MovieCategoryEL_BIOGRAPHY) /\ Truthy(about_id)
    THEN "ConstraintViolation"
  ELSE IF Truthy(about_id) THEN Person_checkPersonIdAsIdRef(P, about_id)
  ELSE "NoConstraintViolation"

\* tvSeriesName.trim() of a name that is not given is a TypeError
Movie_checkTvSeriesName(tvSeriesName, movieCategory) ==
  IF CategoryIs(movieCategory, MovieCategoryEL_TVSERIESEPISODE) /\ ~StrTruthy(tvSeriesName)
    THEN "MandatoryValueConstraintViolation"
  ELSE IF ~CategoryIs(movieCategory, MovieCategoryEL_TVSERIESEPISODE) /\ StrTruthy(tvSeriesName)
    THEN "ConstraintViolation"
  ELSE IF tvSeriesName = UndefinedString THEN "TypeError"
  ELSE IF ~isStringInRange(Trim(tvSeriesName), 1, NumberMaxValue) THEN "IntervalConstraintViolation"
  ELSE "NoConstraintViolation"

Movie_checkEpisodeNo(episodeNo, movieCategory) ==
  IF CategoryIs(movieCategory, MovieCategoryEL_TVSERIESEPISODE) /\ ~Truthy(episodeNo)
    THEN "MandatoryValueConstraintViolation"
  ELSE IF ~CategoryIs(movieCategory, MovieCategoryEL_TVSERIESEPISODE) /\ Truthy(episodeNo)
    THEN "ConstraintViolation"
  ELSE IF ~isIntegerOrIntegerString(episodeNo) THEN "RangeConstraintViolation"
  ELSE IF parseStringInteger(episodeNo) < 0 THEN "IntervalConstraintViolation"
  ELSE "NoConstraintViolation"

(***************************************************************************)
(* The setters.  A setter works on an execution state                      *)
(*   [err, movie, P]                                                       *)
(* err = "" while nothing was thrown, else the kind of the exception;      *)
(* movie is the object being built or updated; P is the person collection  *)
(* (addActor and removeActor tag persons).  A setter that is reached after *)
(* an exception does nothing.                                              *)
(***************************************************************************)
Throw(s, kind) == [s EXCEPT !.err = kind]

\* statement sequencing: the state s, then the statement F on it
Then(s, F(_)) == CHOOSE r \in {F(x) : x \in {s}} : TRUE

Movie_setMovieId(s, M, movieId) ==
  IF s.err # "" THEN s
  ELSE LET r == Movie_checkMovieId(M, movieId)
       IN IF r = "NoConstraintViolation"
          THEN [s EXCEPT !.movie.movieId = Num(parseStringInteger(movieId))]
          ELSE Throw(s, r)

Movie_setTitle(s, title) ==
  IF s.err # "" THEN s
  ELSE LET r == Movie_checkTitle(title)
       IN IF r = "NoConstraintViolation"
          THEN [s EXCEPT !.movie.title = Trim(title)]
          ELSE Throw(s, r)

Movie_setReleaseDate(s, date) ==
  IF s.err # "" THEN s
  ELSE LET r == Movie_checkReleaseDate(date)
       IN IF r = "NoConstraintViolation"
          THEN [s EXCEPT !.movie.releaseDate = date]
          ELSE Throw(s, r)

\* typeof null is "object": null.personId is a TypeError
Movie_setDirector(s, director) ==
  IF s.err # "" THEN s
  ELSE IF director = Null THEN Throw(s, "TypeError")
  ELSE LET r == Movie_checkDirector(s.P, director)
       IN IF r = "NoConstraintViolation"
          THEN [s EXCEPT !.movie.director = LiveRef(KeyOf(director))]
          ELSE Throw(s, r)

\* when the check passes but the id is falsy the setter throws the
\* NoConstraintViolation object itself
Movie_addActor(s, actor) ==
  IF s.err # "" THEN s
  ELSE IF actor = Null THEN Throw(s, "TypeError")
  ELSE LET r == Movie_checkActor(s.P, actor)
           key == KeyOf(actor)
       IN IF Truthy(actor) /\ r = "NoConstraintViolation"
          THEN [s EXCEPT !.movie.actors = Put(@, key, LiveRef(key)),
                         !.P[key].categories = addCategory(@, 1)]
          ELSE Throw(s, r)

RECURSIVE Movie_addActors(_, _)
Movie_addActors(s, actors) ==
  IF actors = <<>> THEN s
  ELSE Then(Movie_addActor(s, Head(actors)), LAMBDA x : Movie_addActors(x, Tail(actors)))

\* removeActor tags the person with addCategory(1) as addActor does
Movie_removeActor(s, actor) ==
  IF s.err # "" THEN s
  ELSE IF actor = Null THEN Throw(s, "TypeError")
  ELSE LET r == Movie_checkActor(s.P, actor)
           key == KeyOf(actor)
       IN IF r = "NoConstraintViolation"
          THEN [s EXCEPT !.movie.actors = Del(@, key),
                         !.P[key].categories = addCategory(@, 1)]
          ELSE Throw(s, r)

RECURSIVE Movie_removeActors(_, _)
Movie_removeActors(s, actors) ==
  IF actors = <<>> THEN s
  ELSE Then(Movie_removeActor(s, Head(actors)), LAMBDA x : Movie_removeActors(x, Tail(actors)))

Movie_setActors(s, actors) ==
  IF s.err # "" THEN s
  ELSE Movie_addActors([s EXCEPT !.movie.actors = EmptyMap], actors)

\* parseStringInteger(category): Number(undefined) is NaN, Number("") is 0
CategoryNumber(category) ==
  CASE category.t = "undefined" -> NaN
    [] category.t = "null" -> Num(0)
    [] category = EmptyStr -> Num(0)
    [] OTHER -> Num(category.v)

Movie_setCategory(s, category) ==
  IF s.err # "" THEN s
  ELSE LET r == IF Truthy(s.movie.category)
                THEN "FrozenValueConstraintViolation"
                ELSE Movie_checkCategory(category)
       IN IF r = "NoConstraintViolation"
          THEN [s EXCEPT !.movie.category = CategoryNumber(category)]
          ELSE Throw(s, r)

Movie_setAbout(s, about) ==
  IF s.err # "" THEN s
  ELSE IF about = Null THEN Throw(s, "TypeError")
  ELSE LET r == Movie_checkAbout(s.P, about, s.movie.category)
       IN IF r = "NoConstraintViolation"
          THEN [s EXCEPT !.movie.about =
                           IF KeyOf(about) \in DOMAIN s.P THEN LiveRef(KeyOf(about)) ELSE NoRef]
          ELSE Throw(s, r)

Movie_setTvSeriesName(s, tvSeriesName) ==
  IF s.err # "" THEN s
  ELSE LET r == Movie_checkTvSeriesName(tvSeriesName, s.movie.category)
       IN IF r = "NoConstraintViolation"
          THEN [s EXCEPT !.movie.tvSeriesName = Trim(tvSeriesName)]
          ELSE Throw(s, r)

Movie_setEpisodeNo(s, episodeNo) ==
  IF s.err # "" THEN s
  ELSE LET r == Movie_checkEpisodeNo(episodeNo, s.movie.category)
       IN IF r = "NoConstraintViolation"
          THEN [s EXCEPT !.movie.episodeNo = Num(parseStringInteger(episodeNo))]
          ELSE Throw(s, r)

\* new Movie(slots): the nine assignments in the order of the constructor
NewMovie(P, M, slots) ==
  LET s0 == [err |-> "", movie |-> BlankMovie, P |-> P]
      s1 == Then(s0, LAMBDA x : Movie_setMovieId(x, M, slots.movieId))
      s2 == Then(s1, LAMBDA x : Movie_setTitle(x, slots.title))
      s3 == Then(s2, LAMBDA x : Movie_setReleaseDate(x, slots.releaseDate))
      s4 == Then(s3, LAMBDA x : Movie_setDirector(x, slots.director))
      s5 == Then(s4, LAMBDA x : Movie_setActors(x, slots.actors))
      s6 == Then(s5, LAMBDA x : Movie_setCategory(x, slots.category))
      s7 == Then(s6, LAMBDA x : Movie_setAbout(x, slots.about))
      s8 == Then(s7, LAMBDA x : Movie_setTvSeriesName(x, slots.tvSeriesName))
  IN Then(s8, LAMBDA x : Movie_setEpisodeNo(x, slots.episodeNo))

\* Movie.toString throws when the toString of the director (or of the
\* subject of a biography) throws
Movie_toStringThrows(P, movie) ==
  \/ Person_toStringThrows(P, Deref(P, movie.director))
  \/ /\ movie.category = Num(MovieCategoryEL_BIOGRAPHY)
     /\ (movie.about = NoRef \/ Person_toStringThrows(P, Deref(P, movie.about)))

(***************************************************************************)
(* cloneObject (lib/util.js).  The clone is shallow: numbers, strings and  *)
(* dates are copied, arrays are sliced, and an attribute that holds an     *)
(* object is copied as the reference to the same object.  An attribute     *)
(* whose value is null makes cloneObject throw (null.constructor), and so  *)
(* does cloning undefined or null (Object.getPrototypeOf).                 *)
(***************************************************************************)
cloneObject_throwsOnPerson(person) ==
  person.personId = Null \/ person.agent = Null

\* the clone of a person: name, id and agent are values, categories is sliced
cloneObject_person(person) == person

\* The clone of a movie shares the `_actors` map with the original, so what
\* the clone holds as actors is what the original holds at the time the
\* clone is read.
cloneObject_movie(clone, original) == [clone EXCEPT !.actors = original.actors]

(***************************************************************************)
(* The repositories work on a world W = [P, pn, M, mn]: the two            *)
(* collections and their next-id counters.  Each operation returns the     *)
(* world after the call and `threw`: whether an exception left the call.   *)
(***************************************************************************)
World(P, pn, M, mn) == [P |-> P, pn |-> pn, M |-> M, mn |-> mn]

\* every reference to the object stored under person key k stops being live
DetachAll(M, P, k) ==
  [mk \in DOMAIN M |->
     IF M[mk] = NullMovie THEN NullMovie
     ELSE [M[mk] EXCEPT
             !.director = DetachRef(P, @, k),
             !.actors = [a \in DOMAIN @ |-> DetachRef(P, @[a], k)],
             !.about = DetachRef(P, @, k)]]

(***************************************************************************)
(* PersonStorage  (src/unnamed/part_006)                                   *)
(***************************************************************************)
\* the counter _nextId when it holds NaN
NotANumber == -9

\* is x a number or a numeral
IsNumeric(x) == x.t = "number" \/ (x.t = "string" /\ x.v >= 0)

\* the counter after add stored a person with this id: parseInt(id) + 1 for
\* a string, id + 1 for everything else (undefined + 1 is NaN, null + 1 is 1)
AfterPersonId(personId) ==
  CASE IsNumeric(personId) -> parseStringInteger(personId) + 1
    [] personId.t = "null" -> 1
    [] OTHER -> NotANumber

\* calculateNextId: one more than the highest personId, 0 when empty;
\* Math.max with an id that is no number gives NaN
PersonStorage_calculateNextId(P) ==
  LET ids == {parseStringInteger(P[k].personId) : k \in DOMAIN P}
  IN IF ids = {} THEN 0
     ELSE IF \E k \in DOMAIN P : ~IsNumeric(P[k].personId) /\ P[k].personId.t # "null"
     THEN NotANumber
     ELSE (CHOOSE x \in ids : \A y \in ids : y <= x) + 1

\* nextId(): the counter, computed first when it is 0
PersonStorage_nextId(P, pn) ==
  IF pn = 0 THEN PersonStorage_calculateNextId(P) ELSE pn

\* add(slots): the Person constructor validates nothing, so the person is
\* always stored, over a record with the same key if there is one; the
\* trailing person.toString() can throw after the insert
PersonStorage_add(W, slots) ==
  LET person == NewPerson(slots)
      k == KeyOf(person.personId)
      M1 == IF k \in DOMAIN W.P THEN DetachAll(W.M, W.P, k) ELSE W.M
      P1 == Put(W.P, k, person)
  IN [w |-> World(P1, AfterPersonId(person.personId), M1, W.mn),
      threw |-> Person_toStringThrows(P1, person)]

\* a variant of update_unknownId: the update of an id that is not in the
\* collection creates a record under it
update_upsert(W, k) ==
  [w |-> [W EXCEPT !.P = Put(@, k, NewPerson([personId |-> Num(k), name |-> "A",
                                               categories |-> <<>>, agent |-> Null]))],
   threw |-> FALSE, err |-> ""]

\* update(slots) with a personId that is not in the collection:
\* cloneObject(undefined) throws before the try block is entered, so the
\* catch block, which stores the clone under personId, is not reached
update_unknownId(W, k) == [w |-> W, threw |-> TRUE, err |-> ""]

\* update(slots)
PersonStorage_update(W, slots) ==
  LET k == KeyOf(slots.personId)
      P == W.P
  IN IF k \notin DOMAIN P THEN update_unknownId(W, k)
     ELSE IF cloneObject_throwsOnPerson(P[k]) THEN [w |-> W, threw |-> TRUE, err |-> ""]
     ELSE
       LET objectBeforeUpdate == cloneObject_person(P[k])
           \* update name
           nameDiffers == P[k].name # slots.name
           r1 == IF nameDiffers THEN Person_checkName(slots.name) ELSE "NoConstraintViolation"
           P1 == IF nameDiffers /\ r1 = "NoConstraintViolation"
                 THEN [P EXCEPT ![k].name = Trim(slots.name)] ELSE P
           \* update agent
           agent == slots.agent
           agentDiffers == r1 = "NoConstraintViolation" /\ P1[k].agent # agent
           tagThrows == agentDiffers /\ Truthy(agent) /\ KeyOf(agent) \notin DOMAIN P1
           P2 == IF agentDiffers /\ Truthy(agent) /\ ~tagThrows
                 THEN [P1 EXCEPT ![KeyOf(agent)].categories = addCategory(@, PersonTypeEL_AGENT)]
                 ELSE P1
           r2 == IF agentDiffers /\ ~tagThrows THEN Person_checkAgent(P2, agent)
                 ELSE "NoConstraintViolation"
           P3 == IF agentDiffers /\ ~tagThrows /\ r2 = "NoConstraintViolation"
                 THEN [P2 EXCEPT ![k].agent = agent] ELSE P2
           caught == IF r1 # "NoConstraintViolation" THEN r1
                     ELSE IF tagThrows THEN "TypeError"
                     ELSE IF r2 # "NoConstraintViolation" THEN r2
                     ELSE ""
       IN IF caught # ""
          THEN \* restore object to its state before updating
               [w |-> [W EXCEPT !.P = Put(P3, k, objectBeforeUpdate),
                                !.M = DetachAll(W.M, P3, k)],
                threw |-> FALSE, err |-> caught]
          ELSE [w |-> [W EXCEPT !.P = P3], threw |-> FALSE, err |-> ""]

\* destroyAgentRef(person): when the person is tagged as agent, every
\* person whose agent (parsed when a string) === person.personId loses it
PersonStorage_destroyAgentRef(P, person) ==
  IF PersonTypeEL_AGENT \in Range(person.categories)
  THEN [key \in DOMAIN P |->
          LET agent == P[key].agent
              agentID == IF agent.t = "string"
                         THEN (IF agent = EmptyStr THEN NaN ELSE Num(agent.v))
                         ELSE agent
          IN IF agentID = person.personId THEN [P[key] EXCEPT !.agent = Null] ELSE P[key]]
  ELSE P

\* calculateNextId of MovieStorage: throws on a null entry
MovieStorage_calculateNextId(M) ==
  LET ids == {M[k].movieId.v : k \in DOMAIN M}
  IN IF ids = {} THEN 0 ELSE (CHOOSE x \in ids : \A y \in ids : y <= x) + 1

MovieStorage_nextId(M, mn) ==
  IF mn = 0 THEN MovieStorage_calculateNextId(M) ELSE mn

\* MovieStorage.destroy(movieId)  (src/unnamed/part_007)
MovieStorage_destroy(W, movieId) ==
  LET k == KeyOf(movieId)
  IN IF k \in DOMAIN W.M /\ W.M[k] # NullMovie
     THEN IF Movie_toStringThrows(W.P, W.M[k])
          THEN [w |-> W, threw |-> TRUE]
          ELSE LET M1 == Del(W.M, k)
                   recalc == movieId.t = "string" /\ movieId.v = W.mn
               IN IF recalc /\ NullMovie \in {M1[x] : x \in DOMAIN M1}
                  THEN [w |-> [W EXCEPT !.M = M1], threw |-> TRUE]
                  ELSE [w |-> [W EXCEPT !.M = M1,
                                        !.mn = IF recalc THEN MovieStorage_calculateNextId(M1) ELSE @],
                        threw |-> FALSE]
     ELSE [w |-> W, threw |-> FALSE]

\* one iteration of the loop of destroyRefInMovies(personId)
destroyRefInMovies_step(r, personId, key) ==
  IF r.threw THEN r
  ELSE LET W == r.w
           movie == W.M[key]
       IN IF movie = NullMovie THEN [r EXCEPT !.threw = TRUE]
          ELSE
            LET isDirector == Deref(W.P, movie.director).personId = Num(parseStringInteger(personId))
                d == IF isDirector THEN MovieStorage_destroy(W, movie.movieId)
                     ELSE [w |-> W, threw |-> FALSE]
                isActor == personId.t = "string" /\ personId.v \in DOMAIN movie.actors
                s == Movie_removeActor([err |-> "", movie |-> movie, P |-> d.w.P], personId)
            IN IF d.threw THEN d
               ELSE IF ~isActor THEN d
               ELSE IF s.err # "" THEN [d EXCEPT !.threw = TRUE]
               ELSE [w |-> [d.w EXCEPT !.P = s.P,
                                       !.M = IF key \in DOMAIN d.w.M
                                             THEN [@ EXCEPT ![key] = s.movie] ELSE @],
                     threw |-> FALSE]

RECURSIVE destroyRefInMovies_loop(_, _, _)
destroyRefInMovies_loop(r, personId, keys) ==
  IF keys = <<>> THEN r
  ELSE Then(destroyRefInMovies_step(r, personId, Head(keys)),
            LAMBDA x : destroyRefInMovies_loop(x, personId, Tail(keys)))

PersonStorage_destroyRefInMovies(W, personId) ==
  destroyRefInMovies_loop([w |-> W, threw |-> FALSE], personId, SortedKeys(DOMAIN W.M))

\* the end of destroy(personId): toString for the log, the delete, and
\* the recalculation of the counter when the id is the counter's value
destroy_end(r, k, personId) ==
  IF r.threw THEN r
  ELSE IF Person_toStringThrows(r.w.P, r.w.P[k]) THEN [r EXCEPT !.threw = TRUE]
  ELSE [w |-> [r.w EXCEPT
                 !.P = Del(r.w.P, k),
                 !.M = DetachAll(r.w.M, r.w.P, k),
                 !.pn = IF personId.t = "string" /\ personId.v = r.w.pn
                        THEN PersonStorage_calculateNextId(Del(r.w.P, k)) ELSE @],
        threw |-> FALSE]

\* destroy(personId)
PersonStorage_destroy(W, personId) ==
  LET k == KeyOf(personId)
  IN IF k \notin DOMAIN W.P THEN [w |-> W, threw |-> FALSE]
     ELSE Then(PersonStorage_destroyRefInMovies(
                 [W EXCEPT !.P = PersonStorage_destroyAgentRef(W.P, W.P[k])], personId),
               LAMBDA r : destroy_end(r, k, personId))

(***************************************************************************)
(* MovieStorage  (src/unnamed/part_007)                                    *)
(***************************************************************************)
\* add(slots): a movie whose constructor threw is not stored, but the tags
\* addActor put on persons before the exception stay
MovieStorage_add(W, slots) ==
  LET s == NewMovie(W.P, W.M, slots)
  IN IF s.err # "" THEN [w |-> [W EXCEPT !.P = s.P], threw |-> FALSE, err |-> s.err]
     ELSE [w |-> [W EXCEPT !.P = s.P,
                           !.M = Put(@, s.movie.movieId.v, s.movie),
                           !.mn = s.movie.movieId.v + 1],
           threw |-> Movie_toStringThrows(s.P, s.movie),
           err |-> ""]

\* the statements of the try block of update, each on the execution state
update_title(s, slots) ==
  IF s.err # "" THEN s
  ELSE IF s.movie.title # slots.title THEN Movie_setTitle(s, slots.title)
  ELSE s

update_releaseDate(s, slots) ==
  IF s.err # "" THEN s
  ELSE IF compareDates(slots.releaseDate, s.movie.releaseDate) # 0
    THEN Movie_setReleaseDate(s, slots.releaseDate)
  ELSE s

update_director(s, slots) ==
  IF s.err # "" THEN s
  ELSE IF slots.director = Null THEN Throw(s, "TypeError")
  ELSE IF slots.director # Deref(s.P, s.movie.director).personId
    THEN Movie_setDirector(s, slots.director)
  ELSE s

update_actors(s, slots) ==
  Then(Movie_addActors(s, slots.actorsToAdd),
       LAMBDA x : Movie_removeActors(x, slots.actorsToRemove))

update_category(s, slots) ==
  IF s.err # "" THEN s
  ELSE IF Truthy(slots.category)
    THEN IF s.movie.category = Undefined
         THEN Movie_setCategory(s, slots.category)
         ELSE IF slots.category # s.movie.category
           THEN Throw(s, "FrozenValueConstraintViolation")
         ELSE s
  ELSE IF slots.category = EmptyStr
    THEN Throw(s, "FrozenValueConstraintViolation")
  ELSE s

\* about: a Person object is never === an id
update_about(s, slots) ==
  IF s.err # "" THEN s
  ELSE IF ~(s.movie.about = NoRef /\ slots.about = Undefined)
    THEN Movie_setAbout(s, slots.about)
  ELSE s

update_episodeNo(s, slots) ==
  IF s.err # "" THEN s
  ELSE IF s.movie.episodeNo # slots.episodeNo
    THEN Movie_setEpisodeNo(s, slots.episodeNo)
  ELSE s

update_tvSeriesName(s, slots) ==
  IF s.err # "" THEN s
  ELSE IF s.movie.tvSeriesName # slots.tvSeriesName
    THEN Movie_setTvSeriesName(s, slots.tvSeriesName)
  ELSE s

\* the catch block of update: the clone is stored in place of the movie
update_restore(M, k, objectBeforeUpdate, movie) ==
  [M EXCEPT ![k] = cloneObject_movie(objectBeforeUpdate, movie)]

\* the result of update from the execution state the try block ended in
update_end(W, k, objectBeforeUpdate, s) ==
  IF s.err # ""
  THEN [w |-> [W EXCEPT !.P = s.P,
                        !.M = update_restore(W.M, k, objectBeforeUpdate, s.movie)],
        threw |-> FALSE, err |-> s.err]
  ELSE [w |-> [W EXCEPT !.P = s.P, !.M[k] = s.movie],
        threw |-> FALSE, err |-> ""]

\* update(slots)
MovieStorage_update(W, slots) ==
  LET k == KeyOf(slots.movieId)
  IN IF k \notin DOMAIN W.M \/ W.M[k] = NullMovie
     THEN [w |-> W, threw |-> TRUE, err |-> ""]
     ELSE
       LET s0 == [err |-> "", movie |-> W.M[k], P |-> W.P]
           s1 == Then(s0, LAMBDA x : update_title(x, slots))
           s2 == Then(s1, LAMBDA x : update_releaseDate(x, slots))
           s3 == Then(s2, LAMBDA x : update_director(x, slots))
           s4 == Then(s3, LAMBDA x : update_actors(x, slots))
           s5 == Then(s4, LAMBDA x : update_category(x, slots))
           s6 == Then(s5, LAMBDA x : update_about(x, slots))
           s7 == Then(s6, LAMBDA x : update_episodeNo(x, slots))
           s8 == Then(s7, LAMBDA x : update_tvSeriesName(x, slots))
       IN Then(s8, LAMBDA x : update_end(W, k, W.M[k], x))

(***************************************************************************)
(* Serialization.  JSON.stringify calls toJSON on every record; a number,  *)
(* a string, null and a list of numbers come back from JSON.parse as they  *)
(* went in.  A reference is written as the personId of the object it       *)
(* names, the actors as the list of their keys parsed to numbers.          *)
(***************************************************************************)
Person_toJSON(person) ==
  [personId |-> person.personId, name |-> person.name,
   categories |-> person.categories, agent |-> person.agent]

\* Person.deserialize(slots)
Person_deserialize(rec) ==
  NewPerson([personId |-> rec.personId, name |-> rec.name,
             categories |-> rec.categories, agent |-> rec.agent])

\* JSON.stringify writes a null entry as null
JsonNull == [movieId |-> Null]

\* Movie.toJSON: director as the id, actors as the list of ids; `about` is
\* written as the Person record, of which the id is kept here (deserialize
\* reads none of it)
Movie_toJSON(P, movie) ==
  IF movie = NullMovie THEN JsonNull
  ELSE [movieId |-> movie.movieId, title |-> movie.title,
        releaseDate |-> movie.releaseDate,
        director |-> Deref(P, movie.director).personId,
        actors |-> [i \in 1..Len(SortedKeys(DOMAIN movie.actors)) |->
                      Num(SortedKeys(DOMAIN movie.actors)[i])],
        category |-> movie.category,
        about |-> Deref(P, movie.about).personId,
        tvSeriesName |-> movie.tvSeriesName,
        episodeNo |-> movie.episodeNo]

\* Movie.deserialize(slots): only movieId, title, releaseDate, director and
\* actors are handed to the constructor; a constructor that throws gives null
Movie_deserialize(P, M, rec) ==
  IF rec = JsonNull THEN [err |-> "TypeError", movie |-> NullMovie, P |-> P]
  ELSE NewMovie(P, M, [movieId |-> rec.movieId, title |-> rec.title,
                       releaseDate |-> rec.releaseDate, director |-> rec.director,
                       actors |-> rec.actors, category |-> Undefined,
                       about |-> Undefined, tvSeriesName |-> UndefinedString,
                       episodeNo |-> Undefined])

\* PersonStorage.persist / MovieStorage.persist: what setItem stores
PersonStorage_persist(P) == [k \in DOMAIN P |-> Person_toJSON(P[k])]
MovieStorage_persist(P, M) == [k \in DOMAIN M |-> Movie_toJSON(P, M[k])]

\* retrieveAgentPersons(agents): the persons that have an agent, in key order
RECURSIVE PersonStorage_retrieveAgentPersons(_, _, _)
PersonStorage_retrieveAgentPersons(r, store, keys) ==
  IF keys = <<>> \/ r.threw THEN r
  ELSE LET p == Head(keys)
           person == Person_deserialize(store[p])
           a == KeyOf(person.agent)
       IN IF a \notin DOMAIN r.P THEN [r EXCEPT !.threw = TRUE]
          ELSE PersonStorage_retrieveAgentPersons(
                 [P |-> Put([r.P EXCEPT ![a].categories = addCategory(@, PersonTypeEL_AGENT)],
                            p, person),
                  pn |-> Max(parseStringInteger(person.personId) + 1, r.pn),
                  threw |-> FALSE],
                 store, Tail(keys))

\* the first loop of retrieveAll: the persons without agent, in key order
RECURSIVE PersonStorage_retrievePersons(_, _, _)
PersonStorage_retrievePersons(r, store, keys) ==
  IF keys = <<>> THEN r
  ELSE LET key == Head(keys)
           person == Person_deserialize(store[key])
       IN PersonStorage_retrievePersons(
            IF Truthy(store[key].agent) THEN r
            ELSE [P |-> Put(r.P, key, person),
                  pn |-> Max(parseStringInteger(person.personId) + 1, r.pn),
                  threw |-> FALSE],
            store, Tail(keys))

\* PersonStorage.retrieveAll() into the collection P
PersonStorage_retrieveAll(P, pn, store) ==
  LET keys == SortedKeys(DOMAIN store)
      agents == SelectSeq(keys, LAMBDA k : Truthy(store[k].agent))
      r1 == PersonStorage_retrievePersons([P |-> P, pn |-> pn, threw |-> FALSE], store, keys)
  IN PersonStorage_retrieveAgentPersons(r1, store, agents)

\* MovieStorage.retrieveAll(): a movie that does not deserialize is stored
\* as null and the following movie.movieId throws
RECURSIVE MovieStorage_retrieveAll(_, _, _)
MovieStorage_retrieveAll(r, store, keys) ==
  IF keys = <<>> \/ r.threw THEN r
  ELSE LET key == Head(keys)
           s == Movie_deserialize(r.w.P, r.w.M, store[key])
       IN IF s.err # ""
          THEN [w |-> [r.w EXCEPT !.P = s.P, !.M = Put(@, key, NullMovie)], threw |-> TRUE]
          ELSE MovieStorage_retrieveAll(
                 [w |-> [r.w EXCEPT !.P = s.P, !.M = Put(@, key, s.movie),
                                    !.mn = Max(s.movie.movieId.v + 1, @)],
                  threw |-> FALSE],
                 store, Tail(keys))

(***************************************************************************)
(* The calls the application makes, and the values it passes               *)
(***************************************************************************)
PersonKeys == 1..MaxPersonId
MovieKeys == 1..MaxMovieId
\* an id is passed as a number (test data) or as a string (form fields)
PersonIds == {Num(i) : i \in PersonKeys} \cup {Str(i) : i \in PersonKeys}
MovieIds == {Num(i) : i \in MovieKeys} \cup {Str(i) : i \in MovieKeys}
\* the id of a person (of a movie) that is never added
UnknownPersonId == Num(MaxPersonId + 1)
UnknownMovieId == Num(MaxMovieId + 1)
AgentIds == {Null} \cup {Num(i) : i \in PersonKeys} \cup {UnknownPersonId}
DirectorIds == {Num(i) : i \in PersonKeys} \cup {UnknownPersonId}

\* the person form hands over whatever was typed; one bag has an empty name
PersonAddSlots ==
  [personId : PersonIds, name : {"A"}, categories : {<<>>}, agent : AgentIds]
  \cup {[personId |-> Num(1), name |-> "", categories |-> <<>>, agent |-> Null]}
PersonUpdateSlots ==
  [personId : {Num(i) : i \in PersonKeys} \cup {UnknownPersonId},
   name : {"A", "B", ""}, agent : AgentIds]
PersonDestroyIds == PersonIds \cup {UnknownPersonId}

ActorLists == {<<>>, <<Num(1)>>, <<Num(1), UnknownPersonId>>}

\* a slot bag of a TV series episode
EpisodeSlots(movieId, title, director, actors) ==
  [movieId |-> movieId, title |-> title, releaseDate |-> "1994-05-12",
   director |-> director, actors |-> actors,
   category |-> Num(MovieCategoryEL_TVSERIESEPISODE),
   about |-> Undefined, tvSeriesName |-> "S", episodeNo |-> Num(1)]
\* a slot bag without category and without the fields that depend on it
PlainSlots(movieId, director, actors) ==
  [movieId |-> movieId, title |-> "T", releaseDate |-> "1994-05-12",
   director |-> director, actors |-> actors, category |-> Undefined,
   about |-> Undefined, tvSeriesName |-> UndefinedString, episodeNo |-> Undefined]
\* a slot bag of a biography
BiographySlots(movieId, director, about) ==
  [movieId |-> movieId, title |-> "T", releaseDate |-> "1994-05-12",
   director |-> director, actors |-> <<>>,
   category |-> Num(MovieCategoryEL_BIOGRAPHY),
   about |-> about, tvSeriesName |-> UndefinedString, episodeNo |-> Undefined]

\* slot bags whose category does not fit their about, tvSeriesName or episodeNo
MisfitAddSlots ==
  {[EpisodeSlots(Num(1), "T", Num(1), <<>>) EXCEPT !.about = Num(1)],
   [EpisodeSlots(Num(1), "T", Num(1), <<>>) EXCEPT !.tvSeriesName = ""],
   [EpisodeSlots(Num(1), "T", Num(1), <<>>) EXCEPT !.episodeNo = Undefined],
   [PlainSlots(Num(1), Num(1), <<>>) EXCEPT !.tvSeriesName = "S", !.episodeNo = Num(1)],
   BiographySlots(Num(1), Num(1), Undefined)}

MovieAddSlots ==
  {EpisodeSlots(Num(m), t, d, a) :
     m \in MovieKeys, t \in {"T", ""}, d \in DirectorIds, a \in ActorLists}
  \cup {PlainSlots(Num(m), d, <<>>) : m \in MovieKeys, d \in DirectorIds}
  \cup {BiographySlots(Num(m), d, d) : m \in MovieKeys, d \in DirectorIds}
  \cup MisfitAddSlots

\* the slot bag of an update: the values of the form, changed or not
UpdateSlots(movieId, title, director, actorsToAdd, actorsToRemove, category) ==
  [movieId |-> movieId, title |-> title, releaseDate |-> "1994-05-12",
   director |-> director, actorsToAdd |-> actorsToAdd, actorsToRemove |-> actorsToRemove,
   category |-> category, about |-> Undefined, episodeNo |-> Num(1), tvSeriesName |-> "S"]

\* update bags that give an episode an about, or take its name or number away
MisfitUpdateSlots ==
  LET u == UpdateSlots(Num(1), "T", Num(1), <<>>, <<>>, Num(MovieCategoryEL_TVSERIESEPISODE))
  IN {[u EXCEPT !.about = Num(1)], [u EXCEPT !.tvSeriesName = ""],
      [u EXCEPT !.episodeNo = Undefined]}

MovieUpdateSlots ==
  {UpdateSlots(Num(m), t, d, <<>>, <<>>, Num(MovieCategoryEL_TVSERIESEPISODE)) :
     m \in MovieKeys, t \in {"T", "U"}, d \in DirectorIds}
  \cup {UpdateSlots(Num(m), "T", d, a, r, Num(MovieCategoryEL_TVSERIESEPISODE)) :
     m \in MovieKeys, d \in DirectorIds \ {UnknownPersonId},
     a \in ActorLists, r \in {<<>>, <<Num(1)>>}}
  \cup {UpdateSlots(Num(m), t, Num(1), <<>>, <<>>, c) :
     m \in MovieKeys, t \in {"T", "U"}, c \in {Num(MovieCategoryEL_BIOGRAPHY), EmptyStr}}
  \cup {UpdateSlots(UnknownMovieId, "T", Num(1), <<>>, <<>>, Num(MovieCategoryEL_TVSERIESEPISODE))}
  \cup MisfitUpdateSlots

MovieDestroyIds == MovieIds \cup {UnknownMovieId}

(***************************************************************************)
(* State machine                                                           *)
(***************************************************************************)
TheWorld == World(p_instances, p_nextId, m_instances, m_nextId)

\* one more call
Count ==
  /\ calls < MaxCalls
  /\ calls' = calls + 1
  /\ UNCHANGED <<o_movie, o_out>>

\* the repositories of the version with back-references are other objects
BackFrame == UNCHANGED <<b_persons, b_movies, b_nextId>>

Become(w) ==
  /\ Count
  /\ BackFrame
  /\ p_instances' = w.P
  /\ p_nextId' = w.pn
  /\ m_instances' = w.M
  /\ m_nextId' = w.mn

\* what is kept of a call: the operation, the id it names, whether an
\* exception left the call, and the kind of the exception it caught ("" if
\* none)
Called(op, id, threw, err) ==
  [op |-> op, id |-> id, threw |-> threw, err |-> err]

\* the keys a destroy deleted from the collections, the movies of a
\* cascade included
Destroyed(w) ==
  /\ p_deleted' = p_deleted \cup (DOMAIN p_instances \ DOMAIN w.P)
  /\ m_deleted' = m_deleted \cup (DOMAIN m_instances \ DOMAIN w.M)

\* what is kept of a call on an object or on a class: the method, its
\* argument, and the kind of what it threw or returned ("" when a setter
\* or constructor returned without throwing)
Out(op, arg, kind) == [op |-> op, arg |-> arg, kind |-> kind]

Init ==
  /\ p_instances = EmptyMap
  /\ p_nextId = 0
  /\ m_instances = EmptyMap
  /\ m_nextId = 0
  /\ p_store = EmptyMap
  /\ m_store = EmptyMap
  /\ call = Called("none", Null, FALSE, "")
  /\ calls = 0
  /\ p_deleted = {}
  /\ m_deleted = {}
  /\ o_movie = NullMovie
  /\ o_out = Out("none", Null, "")
  /\ b_persons = EmptyMap
  /\ b_movies = EmptyMap
  /\ b_nextId = 0

PersonAdd(slots) ==
  LET r == PersonStorage_add(TheWorld, slots)
  IN /\ Become(r.w)
     /\ call' = Called("PersonStorage.add", slots.personId, r.threw, "")
     /\ UNCHANGED <<p_store, m_store, p_deleted, m_deleted>>

PersonUpdate(slots) ==
  LET r == PersonStorage_update(TheWorld, slots)
  IN /\ Become(r.w)
     /\ call' = Called("PersonStorage.update", slots.personId, r.threw, r.err)
     /\ UNCHANGED <<p_store, m_store, p_deleted, m_deleted>>

\* the value of a counter as a JavaScript value
CounterValue(n) == IF n = NotANumber THEN NaN ELSE Num(n)

\* PersonStorage.nextId(): computes the counter when it is 0, and returns it
PersonNextId ==
  LET n == PersonStorage_nextId(p_instances, p_nextId)
  IN /\ Count
     /\ BackFrame
     /\ p_nextId' = n
     /\ call' = Called("PersonStorage.nextId", CounterValue(n), FALSE, "")
     /\ UNCHANGED <<p_instances, m_instances, m_nextId, p_store, m_store, p_deleted, m_deleted>>

\* MovieStorage.nextId(); calculateNextId throws on a null entry
MovieNextId ==
  LET throws == m_nextId = 0 /\ NullMovie \in {m_instances[k] : k \in DOMAIN m_instances}
      n == IF throws THEN m_nextId ELSE MovieStorage_nextId(m_instances, m_nextId)
  IN /\ Count
     /\ BackFrame
     /\ m_nextId' = n
     /\ call' = Called("MovieStorage.nextId", IF throws THEN Undefined ELSE Num(n), throws,
                       IF throws THEN "TypeError" ELSE "")
     /\ UNCHANGED <<p_instances, p_nextId, m_instances, p_store, m_store, p_deleted, m_deleted>>

PersonDestroy(personId) ==
  LET r == PersonStorage_destroy(TheWorld, personId)
  IN /\ Become(r.w)
     /\ call' = Called("PersonStorage.destroy", personId, r.threw, "")
     /\ Destroyed(r.w)
     /\ UNCHANGED <<p_store, m_store>>

MovieAdd(slots) ==
  LET r == MovieStorage_add(TheWorld, slots)
  IN /\ Become(r.w)
     /\ call' = Called("MovieStorage.add", slots.movieId, r.threw, r.err)
     /\ UNCHANGED <<p_store, m_store, p_deleted, m_deleted>>

MovieUpdate(slots) ==
  LET r == MovieStorage_update(TheWorld, slots)
  IN /\ Become(r.w)
     /\ call' = Called("MovieStorage.update", slots.movieId, r.threw, r.err)
     /\ UNCHANGED <<p_store, m_store, p_deleted, m_deleted>>

MovieDestroy(movieId) ==
  LET r == MovieStorage_destroy(TheWorld, movieId)
  IN /\ Become(r.w)
     /\ call' = Called("MovieStorage.destroy", movieId, r.threw, "")
     /\ Destroyed(r.w)
     /\ UNCHANGED <<p_store, m_store>>

\* the beforeunload handler: PersonStorage.persist(); MovieStorage.persist()
Persist ==
  /\ Count
  /\ BackFrame
  /\ p_store' = PersonStorage_persist(p_instances)
  /\ m_store' = MovieStorage_persist(p_instances, m_instances)
  /\ call' = Called("persist", Null, FALSE, "")
  /\ UNCHANGED <<p_instances, p_nextId, m_instances, m_nextId, p_deleted, m_deleted>>

\* loading the page: the repositories are new and empty, then
\* PersonStorage.retrieveAll(); MovieStorage.retrieveAll().  An exception
\* that leaves the first call ends the script before the second.
Reload ==
  \E rp \in {PersonStorage_retrieveAll(EmptyMap, 0, p_store)} :
    \E rm \in {IF rp.threw THEN [w |-> World(rp.P, rp.pn, EmptyMap, 0), threw |-> TRUE]
                ELSE MovieStorage_retrieveAll(
                       [w |-> World(rp.P, rp.pn, EmptyMap, 0), threw |-> FALSE],
                       m_store, SortedKeys(DOMAIN m_store))} :
       /\ Become(rm.w)
       /\ call' = Called("retrieveAll", Null, rm.threw, "")
       /\ UNCHANGED <<p_store, m_store, p_deleted, m_deleted>>

Next ==
  \/ \E slots \in PersonAddSlots : PersonAdd(slots)
  \/ \E slots \in PersonUpdateSlots : PersonUpdate(slots)
  \/ \E personId \in PersonDestroyIds : PersonDestroy(personId)
  \/ \E slots \in MovieAddSlots : MovieAdd(slots)
  \/ \E slots \in MovieUpdateSlots : MovieUpdate(slots)
  \/ \E movieId \in MovieDestroyIds : MovieDestroy(movieId)
  \/ Persist
  \/ Reload

Spec == Init /\ [][Next]_vars

(***************************************************************************)
(* The Movie class used directly.  ObjectSpec starts where the             *)
(* repositories hold what two adds left (person 1, and possibly an episode *)
(* with movieId 1), and a caller constructs a Movie and calls its setters  *)
(* and the static check functions.  The constructed object is not stored.  *)
(***************************************************************************)
\* the world after PersonStorage.add of person 1
WorldOfOnePerson ==
  PersonStorage_add(World(EmptyMap, 0, EmptyMap, 0),
                    [personId |-> Num(1), name |-> "A", categories |-> <<>>, agent |-> Null]).w

\* and after MovieStorage.add of an episode with movieId 1
WorldOfOneMovie ==
  MovieStorage_add(WorldOfOnePerson, EpisodeSlots(Num(1), "T", Num(1), <<>>)).w

ObjectInit ==
  /\ \E w \in {WorldOfOnePerson, WorldOfOneMovie} :
       /\ p_instances = w.P
       /\ p_nextId = w.pn
       /\ m_instances = w.M
       /\ m_nextId = w.mn
  /\ p_store = EmptyMap
  /\ m_store = EmptyMap
  /\ call = Called("none", Null, FALSE, "")
  /\ calls = 0
  /\ p_deleted = {}
  /\ m_deleted = {}
  /\ o_movie = NullMovie
  /\ o_out = Out("none", Null, "")
  /\ b_persons = EmptyMap
  /\ b_movies = EmptyMap
  /\ b_nextId = 0

\* what a call on an object leaves alone
ObjectFrame ==
  UNCHANGED <<p_nextId, m_instances, m_nextId, p_store, m_store, call, calls,
              p_deleted, m_deleted, b_persons, b_movies, b_nextId>>

\* the slot bags a Movie is constructed from
ObjectSlots ==
  {EpisodeSlots(m, t, Num(1), a) :
     m \in {Num(1), Num(2)}, t \in {"T", ""}, a \in {<<>>, <<Num(1)>>}}
  \cup {PlainSlots(Num(2), Num(1), <<>>), BiographySlots(Num(2), Num(1), Num(1))}

\* the values assigned to category
CategoryValues ==
  {Num(MovieCategoryEL_BIOGRAPHY), Num(MovieCategoryEL_TVSERIESEPISODE),
   Str(MovieCategoryEL_TVSERIESEPISODE), Num(MovieCategoryEL_MAX + 1), StrX, Undefined,
   EmptyStr}

\* o = new Movie(slots): when the constructor throws nothing is assigned
Construct(slots) ==
  LET s == NewMovie(p_instances, m_instances, slots)
  IN /\ o_movie' = IF s.err = "" THEN s.movie ELSE o_movie
     /\ p_instances' = s.P
     /\ o_out' = Out("new Movie", slots.category, s.err)
     /\ ObjectFrame

\* the values handed to checkMovieId
MovieIdValues ==
  {Undefined, Null, EmptyStr, StrX, Num(-1), Num(1), Str(1), Num(2)}

\* the values assigned to about, and handed to checkAbout with a category
AboutValues == {Undefined, Null, Num(1), Num(MaxPersonId + 1), StrX}
AboutCategories ==
  {Undefined, Num(MovieCategoryEL_BIOGRAPHY), Num(MovieCategoryEL_TVSERIESEPISODE)}

\* Movie.checkMovieId(movieId)
CheckMovieId(movieId) ==
  /\ o_out' = Out("checkMovieId", movieId, Movie_checkMovieId(m_instances, movieId))
  /\ UNCHANGED <<o_movie, p_instances>>
  /\ ObjectFrame

\* Movie.checkAbout(about_id, movieCategory)
CheckAbout(about_id, movieCategory) ==
  /\ o_out' = Out("checkAbout", <<about_id, movieCategory>>,
                  Movie_checkAbout(p_instances, about_id, movieCategory))
  /\ UNCHANGED <<o_movie, p_instances>>
  /\ ObjectFrame

\* o.about = about
SetAbout(about) ==
  /\ o_movie # NullMovie
  /\ LET s == Movie_setAbout([err |-> "", movie |-> o_movie, P |-> p_instances], about)
     IN /\ o_movie' = s.movie
        /\ p_instances' = s.P
        /\ o_out' = Out("set about", about, s.err)
  /\ ObjectFrame

\* the string of n letters x
RECURSIVE Letters(_)
Letters(n) ==
  IF n = 0 THEN ""
  ELSE IF n % 2 = 0 THEN LET half == Letters(n \div 2) IN half \o half
  ELSE "x" \o Letters(n - 1)

\* the titles handed to checkTitle: around both ends of the interval, bare
\* and padded with blanks, and blanks only
TitleValues ==
  {Letters(n) : n \in {0, 1, 2, TitleMax - 1, TitleMax, TitleMax + 1, TitleMax + 2}}
  \cup {" " \o Letters(n) \o " " : n \in {0, 1, TitleMax - 1, TitleMax, TitleMax + 1}}
  \cup {"  "}

\* Movie.checkTitle(title)
CheckTitle(title) ==
  /\ o_out' = Out("checkTitle", title, Movie_checkTitle(title))
  /\ UNCHANGED <<o_movie, p_instances>>
  /\ ObjectFrame

\* the categories handed to addCategory and removeCategory
PersonCategoryValues == 1..(PersonTypeEL_MAX + 1)

\* PersonStorage.instances[1].addCategory(category)
AddCategory(category) ==
  /\ 1 \in DOMAIN p_instances
  /\ p_instances' = [p_instances EXCEPT ![1].categories = addCategory(@, category)]
  /\ o_out' = Out("addCategory", category, "")
  /\ UNCHANGED o_movie
  /\ ObjectFrame

\* PersonStorage.instances[1].removeCategory(category)
RemoveCategory(category) ==
  /\ 1 \in DOMAIN p_instances
  /\ p_instances' = [p_instances EXCEPT ![1].categories = removeCategory(@, category)]
  /\ o_out' = Out("removeCategory", category,
                  IF Person_checkCategory(category) = "NoConstraintViolation"
                  THEN "" ELSE Person_checkCategory(category))
  /\ UNCHANGED o_movie
  /\ ObjectFrame

\* o.category = category
SetCategory(category) ==
  /\ o_movie # NullMovie
  /\ LET s == Movie_setCategory([err |-> "", movie |-> o_movie, P |-> p_instances], category)
     IN /\ o_movie' = s.movie
        /\ p_instances' = s.P
        /\ o_out' = Out("set category", category, s.err)
  /\ ObjectFrame

ObjectNext ==
  \/ \E slots \in ObjectSlots : Construct(slots)
  \/ \E category \in CategoryValues : SetCategory(category)
  \/ \E about \in AboutValues : SetAbout(about)
  \/ \E movieId \in MovieIdValues : CheckMovieId(movieId)
  \/ \E title \in TitleValues : CheckTitle(title)
  \/ \E category \in PersonCategoryValues : AddCategory(category)
  \/ \E category \in PersonCategoryValues : RemoveCategory(category)
  \/ \E about_id \in AboutValues, movieCategory \in AboutCategories :
       CheckAbout(about_id, movieCategory)

ObjectSpec == ObjectInit /\ [][ObjectNext]_vars

(***************************************************************************)
(* Properties                                                              *)
(***************************************************************************)
\* what the specification calls a valid slot bag of a person: an id that
\* is not in the collection, a non-empty name, no agent or a live agent
ValidPersonSlots(slots) ==
  /\ ~PersonStorage_contains(p_instances, slots.personId)
  /\ slots.name # ""
  /\ (slots.agent = Null \/ PersonStorage_contains(p_instances, slots.agent))

\* a valid slot bag of a movie: an id that is not in the collection, a
\* non-empty title, a live director, live actors, and the fields that
\* depend on the category given exactly when the category asks for them
ValidMovieSlots(slots) ==
  /\ ~MovieStorage_contains(m_instances, slots.movieId)
  /\ slots.title # ""
  /\ PersonStorage_contains(p_instances, slots.director)
  /\ \A i \in DOMAIN slots.actors : PersonStorage_contains(p_instances, slots.actors[i])
  /\ \/ /\ slots.category = Undefined
        /\ slots.about = Undefined
        /\ slots.tvSeriesName = UndefinedString
        /\ slots.episodeNo = Undefined
     \/ /\ slots.category = Num(MovieCategoryEL_TVSERIESEPISODE)
        /\ slots.about = Undefined
        /\ slots.tvSeriesName \notin {UndefinedString, ""}
        /\ slots.episodeNo.t = "number"
     \/ /\ slots.category = Num(MovieCategoryEL_BIOGRAPHY)
        /\ PersonStorage_contains(p_instances, slots.about)
        /\ slots.tvSeriesName = UndefinedString
        /\ slots.episodeNo = Undefined

\* the person collection of the next state holds the slot bag's person
PersonStored(slots) ==
  /\ PersonStorage_contains(p_instances', slots.personId)
  /\ LET person == p_instances'[KeyOf(slots.personId)]
     IN /\ parseStringInteger(person.personId) = parseStringInteger(slots.personId)
        /\ person.name = slots.name
        /\ person.agent = slots.agent

\* the movie collection of the next state holds the slot bag's movie
MovieStored(slots) ==
  /\ MovieStorage_contains(m_instances', slots.movieId)
  /\ LET movie == m_instances'[KeyOf(slots.movieId)]
     IN /\ movie.movieId = Num(parseStringInteger(slots.movieId))
        /\ movie.title = slots.title
        /\ movie.releaseDate = slots.releaseDate
        /\ movie.director = LiveRef(KeyOf(slots.director))
        /\ DOMAIN movie.actors = {KeyOf(slots.actors[i]) : i \in DOMAIN slots.actors}
        /\ movie.category = slots.category

\* C1: for every valid slot bag, immediately after PersonStorage.add(slots)
\* or MovieStorage.add(slots) the repository contains the id and the record
\* stored under it carries the fields of the slot bag.
C1_AddStoresValidSlots ==
  [][/\ \A slots \in PersonAddSlots :
          ValidPersonSlots(slots) /\ PersonAdd(slots) => PersonStored(slots)
     /\ \A slots \in MovieAddSlots :
          ValidMovieSlots(slots) /\ MovieAdd(slots) => MovieStored(slots)]_vars

\* C2: add with an id that is already in the collection is a no-op in both
\* repositories: the number of records is unchanged and the record stored
\* under the id has the field values it had before the call.
C2_DuplicateAddIsNoOp ==
  [][/\ \A slots \in PersonAddSlots :
          PersonStorage_contains(p_instances, slots.personId) /\ PersonAdd(slots)
          => /\ Cardinality(DOMAIN p_instances') = Cardinality(DOMAIN p_instances)
             /\ p_instances'[KeyOf(slots.personId)] = p_instances[KeyOf(slots.personId)]
     /\ \A slots \in MovieAddSlots :
          MovieStorage_contains(m_instances, slots.movieId) /\ MovieAdd(slots)
          => /\ Cardinality(DOMAIN m_instances') = Cardinality(DOMAIN m_instances)
             /\ m_instances'[KeyOf(slots.movieId)] = m_instances[KeyOf(slots.movieId)]]_vars

\* the slot bag of a person update that names a live person, a valid name
\* that differs from the person's, and an agent id that is not in the collection
NameAndUnknownAgent(slots) ==
  /\ PersonStorage_contains(p_instances, slots.personId)
  /\ slots.name # ""
  /\ slots.name # p_instances[KeyOf(slots.personId)].name
  /\ Truthy(slots.agent)
  /\ ~PersonStorage_contains(p_instances, slots.agent)

\* the person stored under personId has the name and the agent it had
SameNameAndAgent(personId) ==
  /\ PersonStorage_contains(p_instances', personId)
  /\ p_instances'[KeyOf(personId)].name = p_instances[KeyOf(personId)].name
  /\ p_instances'[KeyOf(personId)].agent = p_instances[KeyOf(personId)].agent

\* C3: PersonStorage.update with a valid, different name and an agent id
\* that is not in the collection leaves the record stored under personId
\* with exactly the name and the agent it had before the call.
C3_PersonUpdateAtomic ==
  [][\A slots \in PersonUpdateSlots :
       NameAndUnknownAgent(slots) /\ PersonUpdate(slots)
       => SameNameAndAgent(slots.personId)]_vars

\* the step was a MovieStorage.update of a live movie that caught a violation
FailedMovieUpdate ==
  /\ call'.op = "MovieStorage.update"
  /\ call'.err # ""
  /\ MovieStorage_contains(m_instances, call'.id)

\* C4: whenever a step of MovieStorage.update fails, the record stored
\* under movieId afterwards has exactly the title, releaseDate, director
\* and actor set it had before the call.
C4_MovieUpdateAtomic ==
  [][FailedMovieUpdate =>
       /\ MovieStorage_contains(m_instances', call'.id)
       /\ LET before == m_instances[KeyOf(call'.id)]
              after == m_instances'[KeyOf(call'.id)]
          IN /\ after.title = before.title
             /\ after.releaseDate = before.releaseDate
             /\ after.director = before.director
             /\ DOMAIN after.actors = DOMAIN before.actors]_vars

\* Every movie of the collection is a TV series episode (or a null entry
\* left by retrieveAll): the setter of tvSeriesName rejects every slot bag
\* of another category, so no biography and no movie without category is
\* ever stored.
OnlyEpisodesAreLive ==
  \A k \in DOMAIN m_instances :
    \/ m_instances[k] = NullMovie
    \/ m_instances[k].category = Num(MovieCategoryEL_TVSERIESEPISODE)

\* the step was PersonStorage.destroy of a person of the collection, and
\* the call returned
DestroyedLivePerson ==
  /\ call'.op = "PersonStorage.destroy"
  /\ ~call'.threw
  /\ PersonStorage_contains(p_instances, call'.id)

\* the person stored under key k is the director of the movie
DirectedBy(movie, k) == movie.director.live /\ movie.director.key = k

\* the person stored under key k is in the actor set of the movie
PlayedBy(movie, k) == k \in DOMAIN movie.actors /\ movie.actors[k].live

\* C6: PersonStorage.destroy(p) cascades into the movie collection: every
\* live movie whose director is p is no longer contained afterwards, and
\* every live movie that has p only in its actor set is still contained,
\* with the previous actor set minus p.
C6_DestroyCascades ==
  [][DestroyedLivePerson =>
       \A mk \in DOMAIN m_instances :
         LET movie == m_instances[mk]
             k == KeyOf(call'.id)
         IN /\ movie # NullMovie /\ DirectedBy(movie, k)
               => mk \notin DOMAIN m_instances'
            /\ movie # NullMovie /\ ~DirectedBy(movie, k) /\ PlayedBy(movie, k)
               => /\ mk \in DOMAIN m_instances'
                  /\ DOMAIN m_instances'[mk].actors = DOMAIN movie.actors \ {k}]_vars

\* the calls of add, update and destroy of the two repositories
RepositoryCalls ==
  {"PersonStorage.add", "PersonStorage.update", "PersonStorage.destroy",
   "MovieStorage.add", "MovieStorage.update", "MovieStorage.destroy"}

\* C7: no repository call lets an exception reach its caller: add, update
\* and destroy of PersonStorage and MovieStorage return normally for every
\* slot bag and every id.
C7_NoExceptionEscapes ==
  call.op \in RepositoryCalls => ~call.threw

\* every agent of the collection is a stored person other than the person itself
AgentsAreStored ==
  \A k \in DOMAIN p_instances :
    \/ p_instances[k].agent = Null
    \/ /\ PersonStorage_contains(p_instances, p_instances[k].agent)
       /\ KeyOf(p_instances[k].agent) # k

\* C8: persist followed by retrieveAll into empty repositories is a round
\* trip: the reloaded collections hold the same ids and every reloaded
\* record equals the persisted one field by field.  Stated for the
\* collections whose agent references name stored persons, which are the
\* ones the specification lets a repository hold.
C8_PersistRetrieveRoundTrip ==
  [][AgentsAreStored /\ call.op = "persist" /\ call'.op = "retrieveAll"
     => /\ p_instances' = p_instances
        /\ m_instances' = m_instances]_vars

\* the highest key of a collection that is not empty
Highest(keys) == CHOOSE x \in keys : \A y \in keys : y <= x

\* the step was a destroy that removed the record with the highest id of
\* a collection that still holds other records
RemovedHighest(op, before, after) ==
  /\ call'.op = op
  /\ KeyOf(call'.id) \in DOMAIN before
  /\ KeyOf(call'.id) = Highest(DOMAIN before)
  /\ after # EmptyMap
  /\ DOMAIN after = DOMAIN before \ {KeyOf(call'.id)}

\* C9: after destroy removes the record with the highest id of a
\* repository that still holds other records, nextId() returns one more
\* than the highest id that remains in the collection.
C9_NextIdAfterDestroy ==
  [][/\ RemovedHighest("PersonStorage.destroy", p_instances, p_instances')
        => PersonStorage_nextId(p_instances', p_nextId') = Highest(DOMAIN p_instances') + 1
     /\ RemovedHighest("MovieStorage.destroy", m_instances, m_instances')
        => MovieStorage_nextId(m_instances', m_nextId') = Highest(DOMAIN m_instances') + 1]_vars

\* C10 as the specification states it: Deleted is terminal.  Once destroy
\* has removed the record of an id, contains(id) is false in every later
\* state, whatever calls follow.
C10_DeletedIsTerminal ==
  /\ \A k \in p_deleted : k \notin DOMAIN p_instances
  /\ \A k \in m_deleted : k \notin DOMAIN m_instances

\* C10, amended: an id that is not in a collection, a deleted id among
\* them, becomes live only through an add that names it or through
\* retrieveAll; no update and no destroy of either repository, and no
\* persist, makes an id live.
C10_OnlyAddMakesLive ==
  [][/\ \A k \in PersonKeys \cup {KeyOf(UnknownPersonId)} :
          k \notin DOMAIN p_instances /\ k \in DOMAIN p_instances'
          => \/ call'.op = "PersonStorage.add" /\ KeyOf(call'.id) = k
             \/ call'.op = "retrieveAll"
     /\ \A k \in MovieKeys \cup {KeyOf(UnknownMovieId)} :
          k \notin DOMAIN m_instances /\ k \in DOMAIN m_instances'
          => \/ call'.op = "MovieStorage.add" /\ KeyOf(call'.id) = k
             \/ call'.op = "retrieveAll"]_vars

\* destroy has removed person 1, and the update that named id 1 afterwards
\* left it out of the collection
C10_UpdateAfterDestroy ==
  /\ call.op = "PersonStorage.update"
  /\ call.id = Num(1)
  /\ 1 \in p_deleted
  /\ ~PersonStorage_contains(p_instances, Num(1))

\* the step was a PersonStorage.destroy that removed the live person of key k
DestroyRemovedPerson(k) ==
  /\ call'.op = "PersonStorage.destroy"
  /\ KeyOf(call'.id) = k
  /\ k \in DOMAIN p_instances
  /\ k \notin DOMAIN p_instances'

\* C11: after PersonStorage.destroy(p) of a live person p, no person that
\* remains in the collection has p as its agent, whatever adds and updates
\* led to the state.
C11_DestroyClearsAgentRefs ==
  [][\A k \in PersonKeys :
       DestroyRemovedPerson(k)
       => \A c \in DOMAIN p_instances' : KeyOf(p_instances'[c].agent) # k]_vars

\* C13: the category setter is write-once.  The first assignment of a valid
\* category (the one of the constructor) stores it; a later assignment of a
\* different value throws FrozenValueConstraintViolation and leaves the
\* category as it was; a later assignment of the same value throws nothing
\* and changes nothing.
C13_CategoryWriteOnce ==
  [][/\ \A slots \in ObjectSlots :
          Construct(slots) /\ o_out'.kind = ""
          => o_movie'.category = CategoryNumber(slots.category)
     /\ \A category \in CategoryValues :
          SetCategory(category) /\ Truthy(o_movie.category)
          => IF CategoryNumber(category) = o_movie.category
             THEN o_out'.kind = "" /\ o_movie' = o_movie
             ELSE /\ o_out'.kind = "FrozenValueConstraintViolation"
                  /\ o_movie'.category = o_movie.category]_vars

\* the person stored under key k is live again as it was persisted, and
\* the person its agent id names, when stored too, carries the Agent tag
ReloadedWithAgent(k) ==
  /\ k \in DOMAIN p_instances'
  /\ p_instances'[k].personId = p_store[k].personId
  /\ p_instances'[k].agent = p_store[k].agent
  /\ Truthy(p_store[k].agent) /\ KeyOf(p_store[k].agent) \in DOMAIN p_store
     => /\ KeyOf(p_store[k].agent) \in DOMAIN p_instances'
        /\ PersonTypeEL_AGENT \in Range(p_instances'[KeyOf(p_store[k].agent)].categories)

\* C15: PersonStorage.retrieveAll makes every persisted person live again,
\* with its agent reference and with the Agent tag on the referenced agent,
\* whatever the order of the records: also when the agent's record comes
\* after the referrer's, when the agent has an agent itself, and when the
\* stored agent id names no stored person.
C15_RetrieveAllRestoresAgents ==
  [][call.op = "persist" /\ call'.op = "retrieveAll"
     => \A k \in DOMAIN p_store : ReloadedWithAgent(k)]_vars

\* C16: every live person has an integer personId that is not negative
\* and a name that is not empty after trimming: add stores no person
\* whose personId or name is invalid, and update rejects such a name.
C16_LivePersonsAreValid ==
  \A k \in DOMAIN p_instances :
    /\ Person_checkPersonId(p_instances[k].personId) = "NoConstraintViolation"
    /\ Person_checkName(p_instances[k].name) = "NoConstraintViolation"

\* the step was a PersonStorage.add or update after which person k holds
\* a non-empty agent that it did not hold before
AgentBecame(k) ==
  /\ call'.op \in {"PersonStorage.add", "PersonStorage.update"}
  /\ k \in DOMAIN p_instances'
  /\ Truthy(p_instances'[k].agent)
  /\ k \in DOMAIN p_instances => p_instances[k].agent # p_instances'[k].agent

\* C17: whenever the agent of a person becomes a non-empty value through
\* PersonStorage.add or PersonStorage.update, the value is the id of a
\* person that the collection contains; an add or update that names an
\* agent id which is not in the collection stores no such reference.
C17_AgentIsStoredPerson ==
  [][\A k \in PersonKeys :
       AgentBecame(k) => PersonStorage_contains(p_instances', p_instances'[k].agent)]_vars

(***************************************************************************)
(* C18  The violation kinds and the order of the rules                     *)
(***************************************************************************)
\* the closed set of violation kinds
Taxonomy ==
  {"NoConstraintViolation", "MandatoryValueConstraintViolation",
   "RangeConstraintViolation", "IntervalConstraintViolation",
   "UniquenessConstraintViolation", "ReferentialIntegrityConstraintViolation",
   "FrozenValueConstraintViolation"}

\* the first rule violated in the order mandatory, type/range, interval,
\* uniqueness/referential, frozen
FirstViolated(mandatory, range, interval, clash, clashKind, frozen) ==
  IF mandatory THEN "MandatoryValueConstraintViolation"
  ELSE IF range THEN "RangeConstraintViolation"
  ELSE IF interval THEN "IntervalConstraintViolation"
  ELSE IF clash THEN clashKind
  ELSE IF frozen THEN "FrozenValueConstraintViolation"
  ELSE "NoConstraintViolation"

\* a setter that returns normally violated no rule
OutKind == IF o_out.kind = "" THEN "NoConstraintViolation" ELSE o_out.kind

\* what the order gives for an assignment of category to a movie that holds
\* the category held (an assignment to a categorized movie counts as a change)
CategoryOrder(held, category) ==
  FirstViolated(FALSE,
                Truthy(category) /\ ~isIntegerOrIntegerString(category),
                Truthy(category) /\ (category.v < 1 \/ category.v > MovieCategoryEL_MAX),
                FALSE, "",
                Truthy(held))

\* C18: every check function returns and every setter throws one kind of the
\* closed taxonomy, the first rule violated in the order mandatory, range,
\* interval, uniqueness/referential, frozen: checkMovieId gives Mandatory for
\* an absent id, else Range for a non-integer, else Interval for a negative
\* value, else Uniqueness for an id in use, else NoConstraintViolation; the
\* category setter follows the same order and the about check and setter
\* stay inside the taxonomy.
C18_FirstViolatedRule ==
  [][/\ o_out'.op \in {"checkMovieId", "checkAbout", "set about", "set category"}
          => OutKind' \in Taxonomy
     /\ o_out'.op = "checkMovieId"
          => o_out'.kind =
               FirstViolated(o_out'.arg \in {Undefined, Null, EmptyStr},
                             ~isIntegerOrIntegerString(o_out'.arg),
                             o_out'.arg.v < 0,
                             MovieStorage_contains(m_instances, o_out'.arg),
                             "UniquenessConstraintViolation",
                             FALSE)
     /\ o_out'.op = "set category"
          => OutKind' = CategoryOrder(o_movie.category, o_out'.arg)]_vars

(***************************************************************************)
(* C19  The co-constraints of the category                                 *)
(***************************************************************************)
IsSetRef(ref) == ref # NoRef
IsSetName(name) == name \notin {UndefinedString, ""}
IsSetNumber(n) == n.t = "number"

\* about if and only if Biography; tvSeriesName and episodeNo, both, if and
\* only if TvSeriesEpisode, and neither of them otherwise
CoConstrained(movie) ==
  /\ IsSetRef(movie.about) <=> CategoryIs(movie.category, MovieCategoryEL_BIOGRAPHY)
  /\ IF CategoryIs(movie.category, MovieCategoryEL_TVSERIESEPISODE)
     THEN IsSetName(movie.tvSeriesName) /\ IsSetNumber(movie.episodeNo)
     ELSE ~IsSetName(movie.tvSeriesName) /\ ~IsSetNumber(movie.episodeNo)

LiveMoviesAreCoConstrained ==
  \A k \in DOMAIN m_instances :
    m_instances[k] # NullMovie => CoConstrained(m_instances[k])

\* the update handed over the slot bag, and the movie it names is live
UpdateOfLive(slots) ==
  /\ MovieUpdate(slots)
  /\ KeyOf(slots.movieId) \in DOMAIN m_instances
  /\ m_instances[KeyOf(slots.movieId)] # NullMovie

PlainAndValid(slots) ==
  /\ slots.category = Undefined
  /\ slots.about = Undefined
  /\ slots.tvSeriesName = UndefinedString
  /\ slots.episodeNo = Undefined
  /\ ~MovieStorage_contains(m_instances, slots.movieId)
  /\ Movie_checkTitle(slots.title) = "NoConstraintViolation"
  /\ Movie_checkReleaseDate(slots.releaseDate) = "NoConstraintViolation"
  /\ PersonStorage_contains(p_instances, slots.director)
  /\ \A i \in DOMAIN slots.actors : PersonStorage_contains(p_instances, slots.actors[i])

\* C20: MovieStorage.add of a slot bag with a fresh movieId, a valid title
\* and releaseDate, an existing director and existing actors, and with no
\* category, about, tvSeriesName or episodeNo inserts the movie, which then
\* has no category.
C20_AddWithoutCategoryInserts ==
  [][call'.op = "MovieStorage.add" =>
       \A slots \in MovieAddSlots :
         PlainAndValid(slots) /\ MovieAdd(slots)
           => /\ MovieStorage_contains(m_instances', slots.movieId)
              /\ m_instances'[KeyOf(slots.movieId)].category = Undefined]_vars

(***************************************************************************)
(* The ids and the counters: add with ids in any order, with id 0 and      *)
(* without id, destroy, and nextId() on both repositories                  *)
(***************************************************************************)
IdPersonSlots ==
  {[personId |-> id, name |-> "A", categories |-> <<>>, agent |-> Null] :
     id \in {Undefined, Num(0)} \cup {Num(i) : i \in PersonKeys}}
IdMovieSlots ==
  {EpisodeSlots(id, "T", Num(1), <<>>) :
     id \in {Undefined, Num(0)} \cup {Num(i) : i \in MovieKeys}}

IdNext ==
  \/ \E slots \in IdPersonSlots : PersonAdd(slots)
  \/ \E slots \in IdMovieSlots : MovieAdd(slots)
  \/ \E personId \in PersonIds : PersonDestroy(personId)
  \/ \E movieId \in MovieIds \cup {Num(0)} : MovieDestroy(movieId)
  \/ PersonNextId
  \/ MovieNextId

IdSpec == Init /\ [][IdNext]_vars

(***************************************************************************)
(* The version with back-references: Person with directedMovies and        *)
(* playedMovies (src/docs/assignment5/src/m/Person.js), Movie              *)
(* (src/docs/assignment5/src/m/Movie.js) and _MovieStorage                 *)
(* (src/unnamed/part_001).  A person is [directedMovies, playedMovies],    *)
(* the sets of movie keys of the two maps; a movie is [movieId, title,     *)
(* director, actors] with the director as person key and the actors as     *)
(* the set of keys of the map.                                             *)
(***************************************************************************)
\* new Person(slots): both maps are empty
BackPerson == [directedMovies |-> {}, playedMovies |-> {}]

\* the first violation of a list of check results, "" when there is none
FirstError(kinds) ==
  IF \A i \in DOMAIN kinds : kinds[i] = "NoConstraintViolation" THEN ""
  ELSE kinds[CHOOSE i \in DOMAIN kinds :
               /\ kinds[i] # "NoConstraintViolation"
               /\ \A j \in 1..(i - 1) : kinds[j] = "NoConstraintViolation"]

\* the actors of the list that are added before the first one that is not
\* stored: addActor throws on that one
AddedBefore(P, actors) ==
  {KeyOf(actors[i]) : i \in {j \in DOMAIN actors :
      \A h \in 1..j : Person_checkPersonIdAsIdRef(P, actors[h]) = "NoConstraintViolation"}}

ActorErrors(P, actors) ==
  [i \in DOMAIN actors |-> Person_checkPersonIdAsIdRef(P, actors[i])]

\* new Movie(slots): the setters of movieId, title, director and actors; no
\* setter touches a map of a person
BackNewMovie(P, M, slots) ==
  [err |-> FirstError(<<Movie_checkMovieId(M, slots.movieId), Movie_checkTitle(slots.title),
                        Person_checkPersonIdAsIdRef(P, slots.director)>>
                      \o ActorErrors(P, slots.actors)),
   movie |-> [movieId |-> Num(parseStringInteger(slots.movieId)),
              title |-> Trim(slots.title),
              director |-> KeyOf(slots.director),
              actors |-> {KeyOf(slots.actors[i]) : i \in DOMAIN slots.actors}]]

\* _MovieStorage.add(slots)
BackStorage_add(P, M, mn, slots) ==
  LET s == BackNewMovie(P, M, slots)
  IN IF s.err # "" THEN [P |-> P, M |-> M, mn |-> mn, threw |-> FALSE, err |-> s.err]
     ELSE [P |-> P, M |-> Put(M, s.movie.movieId.v, s.movie), mn |-> s.movie.movieId.v + 1,
           threw |-> FALSE, err |-> ""]

\* the director branch of update is entered: a number that differs from the
\* director's personId, or any string (a string is never === a number)
DirectorDiffers(movie, director) ==
  IF director.t = "number" THEN director.v # movie.director ELSE TRUE

\* _MovieStorage.update(slots) of a stored movie.  The try block runs title,
\* director, actorsToAdd, actorsToRemove and stops at the first exception;
\* the catch block stores the clone, which has the title and the director of
\* before and shares the actors map with the movie.  The maps of the persons
\* are written in place and are not restored.
BackStorage_update(P, M, mn, slots) ==
  LET k == KeyOf(slots.movieId)
      movie == M[k]
      titleErr == IF movie.title # slots.title
                  THEN FirstError(<<Movie_checkTitle(slots.title)>>) ELSE ""
      differs == DirectorDiffers(movie, slots.director)
      directorErr == IF differs
                     THEN FirstError(<<Person_checkPersonIdAsIdRef(P, slots.director)>>)
                     ELSE ""
      new == KeyOf(slots.director)
      \* newDirector._directedMovies[movieId] = movie; then
      \* delete directorBeforeUpdate.directedMovies[movieId]
      P1 == IF titleErr = "" /\ differs /\ directorErr = ""
            THEN [x \in DOMAIN P |->
                    IF x = movie.director
                    THEN [P[x] EXCEPT !.directedMovies = @ \ {k}]
                    ELSE IF x = new
                    THEN [P[x] EXCEPT !.directedMovies = @ \cup {k}]
                    ELSE P[x]]
            ELSE P
      addErr == FirstError(ActorErrors(P, slots.actorsToAdd))
      removeErr == FirstError(ActorErrors(P, slots.actorsToRemove))
      reachedAdd == titleErr = "" /\ directorErr = ""
      reachedRemove == reachedAdd /\ addErr = ""
      actors1 == IF reachedAdd THEN movie.actors \cup AddedBefore(P, slots.actorsToAdd)
                 ELSE movie.actors
      actors2 == IF reachedRemove THEN actors1 \ AddedBefore(P, slots.actorsToRemove)
                 ELSE actors1
      err == FirstError(<<IF titleErr = "" THEN "NoConstraintViolation" ELSE titleErr,
                          IF directorErr = "" THEN "NoConstraintViolation" ELSE directorErr,
                          IF addErr = "" THEN "NoConstraintViolation" ELSE addErr,
                          IF removeErr = "" THEN "NoConstraintViolation" ELSE removeErr>>)
  IN IF k \notin DOMAIN M
     THEN [P |-> P, M |-> M, mn |-> mn, threw |-> TRUE, err |-> "TypeError"]
     ELSE IF err # ""
     THEN [P |-> P1, M |-> [M EXCEPT ![k].actors = actors2], mn |-> mn,
           threw |-> FALSE, err |-> err]
     ELSE [P |-> P1,
           M |-> [M EXCEPT ![k] = [movie EXCEPT !.title = Trim(slots.title),
                                                !.director = IF differs THEN new ELSE @,
                                                !.actors = actors2]],
           mn |-> mn, threw |-> FALSE, err |-> ""]

\* _MovieStorage.destroy(movieId): `delete movie.director.directedMovies[movie]`
\* uses the movie, not its id, as the key and deletes nothing; in
\* `for (let actor in movie.actors)` actor is a key, a string, so
\* `delete actor.playedMovies[movie]` throws a TypeError before the movie is
\* deleted
BackStorage_destroy(P, M, mn, movieId) ==
  LET k == KeyOf(movieId)
  IN IF k \notin DOMAIN M THEN [P |-> P, M |-> M, mn |-> mn, threw |-> FALSE, err |-> ""]
     ELSE IF M[k].actors # {}
     THEN [P |-> P, M |-> M, mn |-> mn, threw |-> TRUE, err |-> "TypeError"]
     ELSE [P |-> P, M |-> Del(M, k),
           mn |-> IF movieId.t = "string" /\ movieId.v = mn
                  THEN MovieStorage_calculateNextId(Del(M, k)) ELSE mn,
           threw |-> FALSE, err |-> ""]

\* the persons are stored before the first movie is added
BackInit ==
  /\ p_instances = EmptyMap
  /\ p_nextId = 0
  /\ m_instances = EmptyMap
  /\ m_nextId = 0
  /\ p_store = EmptyMap
  /\ m_store = EmptyMap
  /\ call = Called("none", Null, FALSE, "")
  /\ calls = 0
  /\ p_deleted = {}
  /\ m_deleted = {}
  /\ o_movie = NullMovie
  /\ o_out = Out("none", Null, "")
  /\ b_persons = [k \in PersonKeys |-> BackPerson]
  /\ b_movies = EmptyMap
  /\ b_nextId = 0

BackBecome(op, id, r) ==
  /\ Count
  /\ b_persons' = r.P
  /\ b_movies' = r.M
  /\ b_nextId' = r.mn
  /\ call' = Called(op, id, r.threw, r.err)
  /\ UNCHANGED <<p_instances, p_nextId, m_instances, m_nextId, p_store, m_store,
                 p_deleted, m_deleted>>

BackAddSlots ==
  [movieId : MovieIds, title : {"T", ""}, director : DirectorIds, actors : ActorLists]
BackUpdateSlots ==
  [movieId : {Num(i) : i \in MovieKeys} \cup {UnknownMovieId}, title : {"T", "U"},
   director : DirectorIds \cup {Str(1)},
   actorsToAdd : ActorLists \cup {<<Num(MaxPersonId)>>},
   actorsToRemove : {<<>>, <<Num(1)>>}]

BackAdd(slots) ==
  BackBecome("add", slots.movieId, BackStorage_add(b_persons, b_movies, b_nextId, slots))
BackUpdate(slots) ==
  BackBecome("update", slots.movieId,
             BackStorage_update(b_persons, b_movies, b_nextId, slots))
BackDestroy(movieId) ==
  BackBecome("destroy", movieId,
             BackStorage_destroy(b_persons, b_movies, b_nextId, movieId))

BackNext ==
  \/ \E slots \in BackAddSlots : BackAdd(slots)
  \/ \E slots \in BackUpdateSlots : BackUpdate(slots)
  \/ \E movieId \in MovieDestroyIds : BackDestroy(movieId)

BackSpec == BackInit /\ [][BackNext]_vars

(***************************************************************************)
(* C21  The interval of the title                                          *)
(***************************************************************************)
\* C21: Movie.checkTitle accepts exactly the strings whose trimmed length L
\* satisfies 1 <= L <= 120: NoConstraintViolation for every such title
\* (L = 120 included), IntervalConstraintViolation for a title of blanks
\* only and for every L > 120.
C21_TitleInterval ==
  [][o_out'.op = "checkTitle" /\ o_out'.arg # "" =>
       LET L == StrLen(Trim(o_out'.arg))
       IN o_out'.kind = IF 1 <= L /\ L <= 120
                        THEN "NoConstraintViolation"
                        ELSE "IntervalConstraintViolation"]_vars

(***************************************************************************)
(* C22  Ids are positive                                                   *)
(***************************************************************************)
NextIdOps == {"PersonStorage.nextId", "MovieStorage.nextId"}

\* C22: ids are positive integers: add with personId 0 or movieId 0 is
\* rejected, so every id in either live collection is an integer >= 1, and
\* nextId() never returns a value below 1.
C22_IdsArePositive ==
  /\ \A k \in DOMAIN p_instances :
       IsNumeric(p_instances[k].personId) /\ parseStringInteger(p_instances[k].personId) >= 1
  /\ \A k \in DOMAIN m_instances :
       m_instances[k] # NullMovie =>
         IsNumeric(m_instances[k].movieId) /\ parseStringInteger(m_instances[k].movieId) >= 1
  /\ call.op \in NextIdOps /\ ~call.threw => call.id.t = "number" /\ call.id.v >= 1

(***************************************************************************)
(* C25  nextId() as the next available id                                  *)
(***************************************************************************)
\* C25: in every state reachable by add and destroy calls in any order, the
\* value nextId() returns is an id for which contains(id) is false.
C25_NextIdIsFree ==
  /\ call.op = "PersonStorage.nextId" => ~PersonStorage_contains(p_instances, call.id)
  /\ call.op = "MovieStorage.nextId" /\ ~call.threw
       => ~MovieStorage_contains(m_instances, call.id)

(***************************************************************************)
(* C26  add without id                                                     *)
(***************************************************************************)
\* the collection holds one record more, under the key of the value nextId()
\* had before the call
StoredUnder(before, after, n) ==
  /\ n \notin DOMAIN before
  /\ DOMAIN after = DOMAIN before \cup {n}

\* C26 as the specification states it: add with a slot bag that is valid
\* except that it carries no id creates the entity under the next sequential
\* id: afterwards the collection has one more record, stored under the value
\* nextId() had before the call.
C26_AddAssignsNextId ==
  [][/\ call'.op = "PersonStorage.add" /\ call'.id = Undefined
          => StoredUnder(p_instances, p_instances',
                         KeyOf(CounterValue(PersonStorage_nextId(p_instances, p_nextId))))
     /\ call'.op = "MovieStorage.add" /\ call'.id = Undefined
          /\ PersonStorage_contains(p_instances, Num(1))
          => StoredUnder(m_instances, m_instances',
                         MovieStorage_nextId(m_instances, m_nextId))]_vars

\* C26, amended: MovieStorage.add never assigns an id.  A slot bag that is
\* valid except that it carries no movieId is rejected with
\* MandatoryValueConstraintViolation, and the movie collection and the
\* counter are as before the call; the caller supplies the id, which the
\* user interface reads from nextId().
C26_AddRequiresMovieId ==
  [][call'.op = "MovieStorage.add" /\ call'.id = Undefined
       /\ PersonStorage_contains(p_instances, Num(1))
       => /\ call'.err = "MandatoryValueConstraintViolation"
          /\ m_instances' = m_instances
          /\ m_nextId' = m_nextId]_vars

\* an add without movieId was rejected although the director of the bag is
\* stored, next to a movie that was added with an id
C26_RejectedWithoutId ==
  /\ call.op = "MovieStorage.add"
  /\ call.id = Undefined
  /\ call.err = "MandatoryValueConstraintViolation"
  /\ PersonStorage_contains(p_instances, Num(1))
  /\ m_instances # EmptyMap

(***************************************************************************)
(* C23  addCategory and removeCategory as set operations                   *)
(***************************************************************************)
NoDuplicates(list) == \A i, j \in DOMAIN list : list[i] = list[j] => i = j

\* the categories of the person the object-level calls work on
Categories == p_instances[1].categories

\* C23: addCategory(c) and removeCategory(c) act as set insert and set
\* remove on the person's categories: applying either one twice gives the
\* same categories as applying it once, removeCategory(c) for a c that is
\* not present leaves the categories unchanged, and the categories never
\* hold a value twice.
C23_CategoriesAreASet ==
  [][/\ o_out'.op = "addCategory" /\ o_out'.arg \in 1..PersonTypeEL_MAX
          => /\ Range(Categories') = Range(Categories) \cup {o_out'.arg}
             /\ addCategory(Categories', o_out'.arg) = Categories'
     /\ o_out'.op = "removeCategory" /\ o_out'.arg \in 1..PersonTypeEL_MAX
          => /\ Range(Categories') = Range(Categories) \ {o_out'.arg}
             /\ removeCategory(Categories', o_out'.arg) = Categories'
             /\ o_out'.arg \notin Range(Categories) => Categories' = Categories
     /\ o_out'.op \in {"addCategory", "removeCategory"} /\ NoDuplicates(Categories)
          => NoDuplicates(Categories')]_vars

(***************************************************************************)
(* C24  Back-references as the inverse of the references                   *)
(***************************************************************************)
BackLive(m) == m \in DOMAIN b_movies

\* C24: in the version with back-references, after every add, update and
\* destroy of MovieStorage movie m is in person p's directedMovies if and
\* only if m is live and m.director is p, and m is in p's playedMovies if
\* and only if m is live and p is in m.actors.
C24_BackRefsAreInverse ==
  \A p \in DOMAIN b_persons : \A m \in MovieKeys :
    /\ m \in b_persons[p].directedMovies <=> BackLive(m) /\ b_movies[m].director = p
    /\ m \in b_persons[p].playedMovies <=> BackLive(m) /\ p \in b_movies[m].actors

(***************************************************************************)
(* C27  A rejected update and the other records                            *)
(***************************************************************************)
\* the movie as a reader sees it: each reference replaced by the person
\* object it leads to
Resolved(P, movie) ==
  IF movie = NullMovie THEN NullMovie
  ELSE [movie EXCEPT !.director = Deref(P, @),
                     !.actors = [a \in DOMAIN @ |-> Deref(P, @[a])],
                     !.about = Deref(P, @)]

RejectedUpdate(op) == call'.op = op /\ (call'.err # "" \/ call'.threw)

OtherPersonsKeepCategories(except) ==
  \A k \in DOMAIN p_instances \ except :
    /\ k \in DOMAIN p_instances'
    /\ p_instances'[k].categories = p_instances[k].categories

OtherMoviesUnchanged(except) ==
  \A m \in DOMAIN m_instances \ except :
    /\ m \in DOMAIN m_instances'
    /\ Resolved(p_instances', m_instances'[m]) = Resolved(p_instances, m_instances[m])

\* C27: after a PersonStorage.update or MovieStorage.update that fails, the
\* categories of every other person and every other movie are exactly as
\* before the call.
C27_RejectedUpdateChangesNoOtherRecord ==
  [][/\ RejectedUpdate("PersonStorage.update") =>
          /\ OtherPersonsKeepCategories({KeyOf(call'.id)})
          /\ OtherMoviesUnchanged({})
     /\ RejectedUpdate("MovieStorage.update") =>
          /\ OtherPersonsKeepCategories({})
          /\ OtherMoviesUnchanged({KeyOf(call'.id)})]_vars

(***************************************************************************)
(* C28  Referential integrity of the two collections                       *)
(***************************************************************************)
LiveMovies == {m \in DOMAIN m_instances : m_instances[m] # NullMovie}

\* the person a reference leads to is contained in PersonStorage
Contained(r) == PersonStorage_contains(p_instances, Deref(p_instances, r).personId)

\* C28: in every reachable state the director of each live movie, every
\* member of its actor set and its about-subject are persons contained in
\* PersonStorage.
C28_ReferentialIntegrity ==
  \A m \in LiveMovies :
    /\ Contained(m_instances[m].director)
    /\ \A a \in DOMAIN m_instances[m].actors : Contained(m_instances[m].actors[a])
    /\ m_instances[m].about # NoRef => Contained(m_instances[m].about)

(***************************************************************************)
(* C29  Category tags and references                                       *)
(***************************************************************************)
PersonTypeEL_DIRECTOR == 1
PersonTypeEL_ACTOR == 2

HasTag(p, tag) == tag \in Range(p_instances[p].categories)
\* the key of the person a reference leads to
Target(r) == KeyOf(Deref(p_instances, r).personId)

ActsSomewhere(p) ==
  \E m \in LiveMovies : \E a \in DOMAIN m_instances[m].actors :
    Target(m_instances[m].actors[a]) = p
DirectsSomewhere(p) == \E m \in LiveMovies : Target(m_instances[m].director) = p
IsAgentOfSomeone(p) ==
  \E q \in DOMAIN p_instances :
    Truthy(p_instances[q].agent) /\ KeyOf(p_instances[q].agent) = p

\* C29: in every reachable state a person carries the Actor tag if and only
\* if the person is in the actor set of at least one live movie, the
\* Director tag if and only if the person directs at least one live movie,
\* and the Agent tag if and only if the person is the agent of at least one
\* live person.
C29_TagsFollowReferences ==
  \A p \in DOMAIN p_instances :
    /\ HasTag(p, PersonTypeEL_ACTOR) <=> ActsSomewhere(p)
    /\ HasTag(p, PersonTypeEL_DIRECTOR) <=> DirectsSomewhere(p)
    /\ HasTag(p, PersonTypeEL_AGENT) <=> IsAgentOfSomeone(p)

(***************************************************************************)
(* C30  No stale copies                                                    *)
(***************************************************************************)
\* the person object behind the reference is the record stored under its id
IsStoredRecord(r) == r.live /\ r.key \in DOMAIN p_instances

\* C30: in every reachable state the Person object a live movie holds as
\* director or actor is the very record stored in PersonStorage under that
\* id, so the name read through movie.director equals the name of the
\* record in the person collection.
C30_NoStaleCopies ==
  \A m \in LiveMovies :
    /\ IsStoredRecord(m_instances[m].director)
    /\ \A a \in DOMAIN m_instances[m].actors : IsStoredRecord(m_instances[m].actors[a])
    /\ Target(m_instances[m].director) \in DOMAIN p_instances =>
         Deref(p_instances, m_instances[m].director).name
           = p_instances[Target(m_instances[m].director)].name

====
